---------------------------- MODULE Spec2Model ----------------------------
(***************************************************************************)
(* A model of the schema-driven binary decoder of encoding/binary          *)
(* (BinaryReader.ReadInterface and the byte-level reads and seeks under    *)
(* it) together with the expression sublanguage its struct tags are        *)
(* written in (expression.peg).                                            *)
(*                                                                         *)
(* ReadInterface is recursive and synchronous.  It is modelled as a stack  *)
(* machine: one frame per active ReadInterface call, one action per        *)
(* statement group of the function body.  The byte source is a byte        *)
(* buffer with a position, which is what an io.ReadSeeker over a file or   *)
(* a byte slice is.                                                        *)
(***************************************************************************)
EXTENDS Integers, Sequences, FiniteSets, TLC

(***************************************************************************)
(* Bounds of the model.                                                    *)
(***************************************************************************)
\* Longest byte source drawn from the byte alphabet.
MaxBuf == 4

\* math.MaxInt32, the default scan cap of an unbounded string.
MaxInt32 == 2147483647

(***************************************************************************)
(* Integer helpers.  Go's int is two's complement; the bitwise operators   *)
(* below work on the two's complement reading of unbounded integers, which *)
(* agrees with the 64 bit one on every value that fits.                    *)
(***************************************************************************)
Min(a, b) == IF a < b THEN a ELSE b

RECURSIVE And(_, _)
And(a, b) ==
    IF a = 0 \/ b = 0 THEN 0
    ELSE IF a = -1 THEN b
    ELSE IF b = -1 THEN a
    ELSE (a % 2) * (b % 2) + 2 * And(a \div 2, b \div 2)

\* Go's a &^ b: a AND (NOT b).
AndNot(a, b) == And(a, (-b) - 1)

RECURSIVE Pow2(_)
Pow2(n) == IF n <= 0 THEN 1 ELSE 2 * Pow2(n - 1)

(***************************************************************************)
(* The expression grammar, expression.peg.  A text is a sequence of        *)
(* one-character strings.  Every parsing operator takes the text and a     *)
(* start index and yields [ok, node, pos]: pos is the index of the first   *)
(* character not consumed.  PEG choice is ordered and commits to the first *)
(* alternative that succeeds.                                              *)
(***************************************************************************)
UpperAlpha == {"A","B","C","D","E","F","G","H","I","J","K","L","M",
               "N","O","P","Q","R","S","T","U","V","W","X","Y","Z"}
LowerAlpha == {"a","b","c","d","e","f","g","h","i","j","k","l","m",
               "n","o","p","q","r","s","t","u","v","w","x","y","z"}
Digit      == {"0","1","2","3","4","5","6","7","8","9"}
HexDigit   == Digit \cup {"a","b","c","d","e","f","A","B","C","D","E","F"}
IdentChar  == {"_"} \cup UpperAlpha \cup LowerAlpha \cup Digit
SpaceChar  == {" ", "\t", "\n", "\r"}

NoParse == [ok |-> FALSE, node |-> [tag |-> "none"], pos |-> 0]

At(s, i) == IF i >= 1 /\ i <= Len(s) THEN s[i] ELSE "EOF"

\* The index after the longest run of characters of set cs starting at i.
RECURSIVE RunEnd(_, _, _)
RunEnd(s, i, cs) == IF At(s, i) \in cs THEN RunEnd(s, i + 1, cs) ELSE i

\* Spacing <- [ \t\n\r]+ , used as Spacing?
Spacing(s, i) == RunEnd(s, i, SpaceChar)

\* A successful parse of s[i..e-1] as a leaf.
Leaf(tag, s, i, e) ==
    [ok |-> TRUE, pos |-> e, node |-> [tag |-> tag, text |-> SubSeq(s, i, e - 1)]]

\* Constant <- ("0x" [a-fA-F0-9]+) / [0-9]+
Constant(s, i) ==
    IF At(s, i) = "0" /\ At(s, i + 1) = "x" /\ At(s, i + 2) \in HexDigit
    THEN Leaf("const", s, i, RunEnd(s, i + 2, HexDigit))
    ELSE IF At(s, i) \in Digit
    THEN Leaf("const", s, i, RunEnd(s, i, Digit))
    ELSE NoParse

\* Identifier <- [A-Z] [_A-Za-z0-9]* ; yields the index after it, 0 if none.
Identifier(s, i) ==
    IF At(s, i) \in UpperAlpha THEN RunEnd(s, i + 1, IdentChar) ELSE 0

\* ('.' Identifier)* from index i, collecting the identifiers; e is the end
\* of the identifier that may follow the dot at i.
RECURSIVE DotTail(_, _, _, _)
DotTail(s, i, e, ids) ==
    IF At(s, i) = "." /\ e # 0
    THEN DotTail(s, e, Identifier(s, e + 1), Append(ids, SubSeq(s, i + 1, e - 1)))
    ELSE [ok |-> TRUE, pos |-> i, node |-> [tag |-> "path", ids |-> ids]]

\* DotIdentifier <- Identifier ('.' Identifier)*
DotHead(s, i, e) ==
    IF e = 0 THEN NoParse
    ELSE DotTail(s, e, Identifier(s, e + 1), <<SubSeq(s, i, e - 1)>>)
DotIdentifier(s, i) == DotHead(s, i, Identifier(s, i))

\* Op <- ShiftRight / ShiftLeft / AndNot / Mask / Add / Sub / Mul / BooleanOp
\* BooleanOp <- Eq / Lt / Gt / Le / Ge / Ne
\* in the order the alternatives are tried, each with its token.
OpOrder == << [op |-> "shr",    tok |-> <<">", ">">>],
              [op |-> "shl",    tok |-> <<"<", "<">>],
              [op |-> "andnot", tok |-> <<"&", "^">>],
              [op |-> "and",    tok |-> <<"&">>],
              [op |-> "add",    tok |-> <<"+">>],
              [op |-> "sub",    tok |-> <<"-">>],
              [op |-> "mul",    tok |-> <<"*">>],
              [op |-> "eq",     tok |-> <<"=", "=">>],
              [op |-> "lt",     tok |-> <<"<">>],
              [op |-> "gt",     tok |-> <<">">>],
              [op |-> "le",     tok |-> <<"<", "=">>],
              [op |-> "ge",     tok |-> <<">", "=">>],
              [op |-> "ne",     tok |-> <<"!", "=">>] >>

\* Whether the literal tok stands at index i of s.
Literal(s, i, tok) == \A k \in 1..Len(tok) : At(s, i + k - 1) = tok[k]

\* Ordered choice: the first of the parses that succeeded.
FirstOf2(a, b)    == IF a.ok THEN a ELSE b
FirstOf3(a, b, c) == IF a.ok THEN a ELSE IF b.ok THEN b ELSE c

RECURSIVE Grouping(_, _)
RECURSIVE Op(_, _)
RECURSIVE OpAfter(_, _, _)

\* '(' Op ')' : inner is the parse of Op after the opening parenthesis.
CloseParen(s, inner) ==
    IF inner.ok /\ At(s, inner.pos) = ")"
    THEN [ok |-> TRUE, node |-> inner.node, pos |-> inner.pos + 1]
    ELSE NoParse
Paren(s, p) == IF At(s, p) = "(" THEN CloseParen(s, Op(s, p + 1)) ELSE NoParse

\* The trailing Spacing? of Grouping.
TrailSpacing(s, body) ==
    IF body.ok
    THEN [ok |-> TRUE, node |-> body.node, pos |-> Spacing(s, body.pos)]
    ELSE NoParse

\* Grouping <- Spacing? ('(' Op ')' / Constant / DotIdentifier) Spacing?
GroupingAt(s, p) ==
    TrailSpacing(s, FirstOf3(Paren(s, p), Constant(s, p), DotIdentifier(s, p)))
Grouping(s, i) == GroupingAt(s, Spacing(s, i))

\* The right operand of the alternative with token tok, after the left
\* operand l: <name> <- Grouping <tok> Grouping.
RightOperand(s, l, tok) ==
    IF Literal(s, l.pos, tok) THEN Grouping(s, l.pos + Len(tok)) ELSE NoParse

\* An alternative that commits once its token has matched.
OpCommit(s, l, k, r) ==
    IF r.ok
    THEN [ok |-> TRUE, pos |-> r.pos,
          node |-> [tag |-> "bin", op |-> OpOrder[k].op, l |-> l.node, r |-> r.node]]
    ELSE IF Literal(s, l.pos, OpOrder[k].tok) THEN NoParse
    ELSE OpAfter(s, l, k + 1)

\* An alternative that builds its node with the operands exchanged.
OpTrySwapped(s, l, k, r) ==
    IF r.ok
    THEN [ok |-> TRUE, pos |-> r.pos,
          node |-> [tag |-> "bin", op |-> OpOrder[k].op, l |-> r.node, r |-> l.node]]
    ELSE OpAfter(s, l, k + 1)

\* The k-th alternative of Op, whose right operand parsed as r, and the
\* later ones if it failed.
OpTry(s, l, k, r) ==
    IF r.ok
    THEN [ok |-> TRUE, pos |-> r.pos,
          node |-> [tag |-> "bin", op |-> OpOrder[k].op, l |-> l.node, r |-> r.node]]
    ELSE OpAfter(s, l, k + 1)

\* The alternatives of Op from the k-th on.  Every alternative starts with
\* the same Grouping l (a PEG rule is a function of the position), so only
\* the token and the right operand decide.
OpAfter(s, l, k) ==
    IF ~l.ok \/ k > Len(OpOrder) THEN NoParse
    ELSE OpTry(s, l, k, RightOperand(s, l, OpOrder[k].tok))

Op(s, i) == OpAfter(s, Grouping(s, i), 1)

\* A grammar without the EndOfFile of Expression.
EndAnywhere(s, e) == e

\* EndOfFile <- !.
EndOfFile(s, e) == IF e.ok /\ e.pos = Len(s) + 1 THEN e ELSE NoParse

\* Expression <- (Op / Grouping) EndOfFile
Expression(s) == EndOfFile(s, FirstOf2(Op(s, 1), Grouping(s, 1)))

(***************************************************************************)
(* Types and values.  A type is a record with a kind; a slice or array     *)
(* type has an element type, a struct type has a sequence of fields, each  *)
(* with its name, its type and its five struct tags (the empty text when   *)
(* the tag is absent, as Tag.Get returns "").  reader and validateable     *)
(* say whether the pointer type implements Reader and Validateable.        *)
(*                                                                         *)
(* An integer, bool or float value is an integer (a float is its bit       *)
(* pattern), a string value is its sequence of bytes, a slice or array     *)
(* value the sequence of its elements, a struct value the sequence of its  *)
(* field values in declaration order.                                      *)
(***************************************************************************)
UintKinds   == {"uint", "uint64", "uint32", "uint16", "uint8"}
IntKinds    == {"int", "int64", "int32", "int16", "int8"}
FloatKinds  == {"float32", "float64"}
ScalarKinds == {"bool"} \cup UintKinds \cup IntKinds \cup FloatKinds

\* The number of bytes ReadInterface reads for a scalar kind.
Width(kind) ==
    CASE kind \in {"bool", "uint8", "int8"}                     -> 1
      [] kind \in {"uint16", "int16"}                           -> 2
      [] kind \in {"uint32", "int32", "float32"}                -> 4
      [] kind \in {"uint", "uint64", "int", "int64", "float64"} -> 8

Scalar(kind)   == [kind |-> kind, reader |-> FALSE, validateable |-> FALSE]
StringT        == [kind |-> "string", reader |-> FALSE, validateable |-> FALSE]
SliceOf(t)     == [kind |-> "slice", elem |-> t,
                   reader |-> FALSE, validateable |-> FALSE]
ArrayOf(n, t)  == [kind |-> "array", elem |-> t, len |-> n,
                   reader |-> FALSE, validateable |-> FALSE]
StructOf(fs)   == [kind |-> "struct", fields |-> fs,
                   reader |-> FALSE, validateable |-> FALSE]
MapT           == [kind |-> "map", reader |-> FALSE, validateable |-> FALSE]
WithValidate(t) == [t EXCEPT !.validateable = TRUE]
WithReader(t)   == [t EXCEPT !.reader = TRUE]

NoTag == << >>
Field(name, t, tif, skip, length, max, align) ==
    [name |-> name, type |-> t, tif |-> tif, skip |-> skip,
     length |-> length, max |-> max, align |-> align]
Plain(name, t) == Field(name, t, NoTag, NoTag, NoTag, NoTag, NoTag)

RECURSIVE Zero(_)
Zero(t) ==
    CASE t.kind \in ScalarKinds -> 0
      [] t.kind = "array"       -> [k \in 1..t.len |-> Zero(t.elem)]
      [] t.kind = "struct"      -> [k \in 1..Len(t.fields) |-> Zero(t.fields[k].type)]
      [] OTHER                  -> << >>

Max(a, b) == IF a > b THEN a ELSE b
RoundTo(n, a) == ((n + a - 1) \div a) * a

\* reflect's Type.Size() and Type.Align() as the gc compiler lays types out
\* on a 64 bit target: a string is a 16 byte header, a slice a 24 byte one,
\* a struct places each field at the next multiple of its alignment and is
\* padded to a multiple of its own.
RECURSIVE GoAlign(_)
RECURSIVE GoSize(_)
RECURSIVE GoOffset(_, _)
GoAlign(t) ==
    CASE t.kind \in ScalarKinds -> Width(t.kind)
      [] t.kind = "array"       -> GoAlign(t.elem)
      [] t.kind = "struct"      ->
            IF t.fields = << >> THEN 1
            ELSE LET as == {GoAlign(t.fields[k].type) : k \in 1..Len(t.fields)}
                 IN CHOOSE a \in as : \A b \in as : b <= a
      [] OTHER                  -> 8
\* The offset just past the first k fields of struct type t.
GoOffset(t, k) ==
    IF k = 0 THEN 0
    ELSE RoundTo(GoOffset(t, k - 1), GoAlign(t.fields[k].type))
         + GoSize(t.fields[k].type)
GoSize(t) ==
    CASE t.kind \in ScalarKinds -> Width(t.kind)
      [] t.kind = "string"      -> 16
      [] t.kind = "slice"       -> 24
      [] t.kind = "array"       -> t.len * GoSize(t.elem)
      [] t.kind = "struct"      -> RoundTo(GoOffset(t, Len(t.fields)), GoAlign(t))
      [] OTHER                  -> 8

(***************************************************************************)
(* expression.Eval: the value of a parsed expression against the struct    *)
(* being decoded.  Yields [ok, val].  The Go source of Eval is not among   *)
(* the sources; it is modelled after its documented behaviour and the      *)
(* cases of eval_test.go.                                                  *)
(***************************************************************************)
EvalError == [ok |-> FALSE, val |-> 0]

HexValue(c) ==
    CASE c = "0" -> 0  [] c = "1" -> 1  [] c = "2" -> 2  [] c = "3" -> 3
      [] c = "4" -> 4  [] c = "5" -> 5  [] c = "6" -> 6  [] c = "7" -> 7
      [] c = "8" -> 8  [] c = "9" -> 9
      [] c \in {"a", "A"} -> 10  [] c \in {"b", "B"} -> 11
      [] c \in {"c", "C"} -> 12  [] c \in {"d", "D"} -> 13
      [] c \in {"e", "E"} -> 14  [] c \in {"f", "F"} -> 15

RECURSIVE Numeral(_, _, _)
Numeral(text, k, base) ==
    IF k = 0 THEN 0
    ELSE base * Numeral(text, k - 1, base) + HexValue(text[k])

ConstValue(text) ==
    IF Len(text) >= 3 /\ text[2] = "x"
    THEN Numeral(SubSeq(text, 3, Len(text)), Len(text) - 2, 16)
    ELSE Numeral(text, Len(text), 10)

\* The index of the field of struct type t called name, 0 when there is none.
FieldIndex(t, name) ==
    IF \E k \in 1..Len(t.fields) : t.fields[k].name = name
    THEN CHOOSE k \in 1..Len(t.fields) : t.fields[k].name = name
    ELSE 0

RECURSIVE ResolvePath(_, _, _, _)
ResolvePath(t, v, ids, k) ==
    IF t.kind # "struct" THEN EvalError
    ELSE LET fi == FieldIndex(t, ids[k])
         IN IF fi = 0 THEN EvalError
            ELSE IF k < Len(ids)
            THEN ResolvePath(t.fields[fi].type, v[fi], ids, k + 1)
            ELSE IF t.fields[fi].type.kind \in UintKinds \cup IntKinds
            THEN [ok |-> TRUE, val |-> v[fi]]
            ELSE EvalError

Bool2Int(b) == IF b THEN 1 ELSE 0

Apply(op, a, b) ==
    CASE op = "shr"    -> a \div Pow2(b)
      [] op = "shl"    -> a * Pow2(b)
      [] op = "andnot" -> AndNot(a, b)
      [] op = "and"    -> And(a, b)
      [] op = "add"    -> a + b
      [] op = "sub"    -> a - b
      [] op = "mul"    -> a * b
      [] op = "eq"     -> Bool2Int(a = b)
      [] op = "ne"     -> Bool2Int(a # b)
      [] op = "lt"     -> Bool2Int(a < b)
      [] op = "le"     -> Bool2Int(a <= b)
      [] op = "gt"     -> Bool2Int(a > b)
      [] op = "ge"     -> Bool2Int(a >= b)

RECURSIVE Eval(_, _, _)
Eval(t, v, node) ==
    CASE node.tag = "const" -> [ok |-> TRUE, val |-> ConstValue(node.text)]
      [] node.tag = "path"  -> ResolvePath(t, v, node.ids, 1)
      [] node.tag = "bin"   ->
            LET l == Eval(t, v, node.l)
                r == Eval(t, v, node.r)
            IN IF l.ok /\ r.ok
               THEN [ok |-> TRUE, val |-> Apply(node.op, l.val, r.val)]
               ELSE EvalError

\* What every tag of ReadInterface does with its text: Parse, then Eval
\* against the struct v2 being decoded.  Yields [err, val], err "nil" on
\* success.
TagValue(t, v, text) ==
    LET e == Expression(text)
    IN IF ~e.ok THEN [err |-> "parse", val |-> 0]
       ELSE LET r == Eval(t, v, e.node)
            IN IF ~r.ok THEN [err |-> "eval", val |-> 0]
               ELSE [err |-> "nil", val |-> r.val]

(***************************************************************************)
(* The state.                                                              *)
(*   root    the destination handed to the top-level ReadInterface call:   *)
(*           its type t, its value v before the call, and whether it is    *)
(*           handed over as a pointer                                      *)
(*   buf, pos  the byte source r.Reader and its position                   *)
(*   endian  r.Endianess                                                   *)
(*   stack   the active ReadInterface calls, innermost last                *)
(*   ret     what the call that just returned handed to its caller         *)
(*   status  "running", "done" (the top-level call returned) or            *)
(*           "panicked" (a run-time panic unwound it)                      *)
(*   result  the error the top-level call returned, "nil" for none         *)
(*   dest    the destination after the top-level call returned             *)
(* History, for stating properties:                                        *)
(*   log     every Read and Seek issued on the byte source, in order       *)
(*   failed  0 until a call returns an error it raised itself, then the    *)
(*           depth of that call                                            *)
(*   assigns the number of Set calls made on destinations                  *)
(*   last    what the last step did                                        *)
(***************************************************************************)
VARIABLES root, buf, endian, pos, stack, ret, status, result, dest,
          log, failed, assigns, last

readerVars == <<root, buf, endian, pos, stack, ret, status, result, dest,
                log, failed, assigns, last>>

(***************************************************************************)
(* The other packages of the repository are modelled next to the decoder,  *)
(* each with variables and a specification of its own:                     *)
(*   expr, ast, val   an expression text, its parse and its value          *)
(*   arr, acall       an Array with its wrappers, and the last call on it  *)
(*   tree, present, tcall   the Root of a Tree, the elements added and not *)
(*                    deleted since, and the last call on the tree         *)
(*   regions, rcall   the regions of a RegionSet and the last call on it   *)
(*   lock, threads    the holder of the lock of the RegionSet, and the     *)
(*                    goroutines calling its methods                       *)
(***************************************************************************)
VARIABLES expr, ast, val, arr, acall, tree, present, tcall, regions, rcall,
          lock, threads

exprVars  == <<expr, ast, val>>
arrayVars == <<arr, acall>>
treeVars  == <<tree, present, tcall>>
regionVars == <<regions, rcall>>
lockVars  == <<lock, threads>>

vars == <<readerVars, exprVars, arrayVars, treeVars, regionVars, lockVars>>

\* What the decoder leaves alone.
besideReader == <<exprVars, arrayVars, treeVars, regionVars, lockVars>>

\* The values of the variables of a package that is not running.
NotParsed    == [ok |-> FALSE, node |-> [tag |-> "pending"], pos |-> 0]
NotEvaluated == [done |-> FALSE, ok |-> FALSE, val |-> 0]
ExprIdle ==
    /\ expr = [form |-> "none"]
    /\ ast = NotParsed
    /\ val = NotEvaluated
NoCall == [op |-> "none", out |-> "ok"]
ArrayIdle ==
    /\ arr = [kind |-> "none"]
    /\ acall = NoCall
\* A nil *Node, and &Node{Data: data}; Data 0 is nil.
NilNode == [nil |-> TRUE]
NewNode(data) == [Data |-> data, Children |-> <<NilNode, NilNode>>]
TreeIdle ==
    /\ tree = NewNode(0)
    /\ present = {}
    /\ tcall = [op |-> "none", panic |-> FALSE]
\* No goroutine is in a method of the RegionSet.
NoThreads ==
    /\ lock = "free"
    /\ threads = [sub |-> [pc |-> "idle"], add |-> [pc |-> "idle"]]
RegionsIdle ==
    /\ regions = << >>
    /\ rcall = [op |-> "none"]
    /\ NoThreads

Top     == stack[Len(stack)]
Running == status = "running"

ReadEvent(n, got) == [op |-> "read", a |-> n, b |-> got]
SeekEvent(off)    == [op |-> "seek", a |-> off, b |-> 0]

(***************************************************************************)
(* The byte source, an io.ReadSeeker over the bytes buf.                   *)
(***************************************************************************)
\* r.Reader.Read(data) for a block of n >= 1 bytes: at the end of the bytes
\* it delivers nothing and io.EOF, else as many bytes as remain, up to n.
SrcRead(n) ==
    IF pos >= Len(buf)
    THEN [n |-> 0, err |-> "EOF", data |-> << >>, pos |-> pos]
    ELSE LET k == Min(n, Len(buf) - pos)
         IN [n |-> k, err |-> "nil",
             data |-> SubSeq(buf, pos + 1, pos + k), pos |-> pos + k]

\* r.Reader.Seek(offset, 1): relative to the current position; a position
\* before the start is an error, one past the end is not.
SrcSeek(offset) ==
    IF pos + offset < 0
    THEN [err |-> "seek", pos |-> pos]
    ELSE [err |-> "nil", pos |-> pos + offset]

\* BinaryReader.Seek
Seek(offset) ==
    LET s == SrcSeek(offset)
    IN [err |-> s.err, pos |-> s.pos, ev |-> <<SeekEvent(offset)>>]

\* A Read without the check of n against len(data): the block keeps the
\* zeroes of make where the source delivered nothing.
ReadOfUnchecked(size, s) ==
    IF s.err # "nil"
    THEN [outcome |-> "err", err |-> s.err, data |-> << >>,
          pos |-> s.pos, ev |-> <<ReadEvent(size, s.n)>>]
    ELSE [outcome |-> "ok", err |-> "nil",
          data |-> s.data \o [k \in 1..(size - s.n) |-> 0],
          pos |-> s.pos, ev |-> <<ReadEvent(size, s.n)>>]

\* BinaryReader.Read, after make: s is what r.Reader.Read(data) delivered.
ReadOf(size, s) ==
    IF s.err # "nil"
    THEN [outcome |-> "err", err |-> s.err, data |-> << >>,
          pos |-> s.pos, ev |-> <<ReadEvent(size, s.n)>>]
    ELSE IF s.n # size
    THEN [outcome |-> "err", err |-> "short", data |-> << >>,
          pos |-> s.pos, ev |-> <<ReadEvent(size, s.n)>>]
    ELSE [outcome |-> "ok", err |-> "nil", data |-> s.data,
          pos |-> s.pos, ev |-> <<ReadEvent(size, s.n)>>]

\* BinaryReader.Read.  make([]byte, size) panics for a negative size.
Read(size) ==
    IF size < 0
    THEN [outcome |-> "panic", err |-> "nil", data |-> << >>,
          pos |-> pos, ev |-> << >>]
    ELSE IF size = 0
    THEN [outcome |-> "ok", err |-> "nil", data |-> << >>,
          pos |-> pos, ev |-> << >>]
    ELSE ReadOf(size, SrcRead(size))

\* r.Endianess.Uint16/32/64(data), and the single byte of Uint8.
RECURSIVE BigEndianValue(_, _)
BigEndianValue(data, k) ==
    IF k = 0 THEN 0 ELSE 256 * BigEndianValue(data, k - 1) + data[k]
RECURSIVE LittleEndianValue(_, _)
LittleEndianValue(data, k) ==
    IF k > Len(data) THEN 0 ELSE data[k] + 256 * LittleEndianValue(data, k + 1)
OrderValue(data) ==
    IF endian = "big" THEN BigEndianValue(data, Len(data))
    ELSE LittleEndianValue(data, 1)

\* Uint8, Uint16, Uint32, Uint64: w is the width in bytes, r the Read.
UintOf(r) ==
    [outcome |-> r.outcome, err |-> r.err, pos |-> r.pos, ev |-> r.ev,
     val |-> IF r.outcome = "ok" /\ r.data # << >> THEN OrderValue(r.data) ELSE 0]
UintN(w) == UintOf(Read(w))

\* Int8 .. Int64 (and Float32, Float64, which keep the bit pattern): the
\* unsigned value converted to the signed type of the same width.
SignedValue(w, data) ==
    IF (IF endian = "big" \/ w = 1 THEN data[1] ELSE data[w]) >= 128
    THEN OrderValue(data) - Pow2(8 * w)
    ELSE OrderValue(data)
IntOf(w, r) ==
    [outcome |-> r.outcome, err |-> r.err, pos |-> r.pos, ev |-> r.ev,
     val |-> IF r.outcome = "ok" THEN SignedValue(w, r.data) ELSE 0]
IntN(w) == IntOf(w, Read(w))

\* d != 0 of case reflect.Bool
BoolOf(u) == [u EXCEPT !.val = Bool2Int(u.val # 0)]

\* The read ReadInterface makes for a scalar kind, and the value it sets.
ScalarRead(kind) ==
    IF kind = "bool" THEN BoolOf(UintN(1))
    ELSE IF kind \in UintKinds THEN UintN(Width(kind))
    ELSE IntN(Width(kind))

(***************************************************************************)
(* A frame is one active ReadInterface(v) call: the type t and value v of  *)
(* what v points to, whether v is a pointer, the place pc in the function  *)
(* body, and the locals of the struct case: the field index i (from 1),    *)
(* size, the loop counter j, the slice v3 being filled, the bytes data of  *)
(* a string being scanned and its cap max.  The rest is history: the       *)
(* position p0 and log length l0 at entry, the position pv where the       *)
(* decoding of the current field's value started, the value cond of the    *)
(* current field's `if` tag (1 when it has none), whether its length tag   *)
(* resolved, the number ncond0 of fields whose `if` evaluated to 0, and    *)
(* the value v0 the destination had at entry.                              *)
(***************************************************************************)
Frame(t, v, ptr, p, l) ==
    [t |-> t, v |-> v, ptr |-> ptr, pc |-> "entry",
     i |-> 1, size |-> -1, j |-> 0, v3 |-> << >>, data |-> << >>, max |-> 0,
     p0 |-> p, l0 |-> l, pv |-> p, cond |-> 1, resolved |-> FALSE, ncond0 |-> 0,
     v0 |-> v]

NoRet == [err |-> "none"]

\* A step inside the current call: its frame becomes f.
Goto(f, p, ev, na, l) ==
    /\ stack' = [stack EXCEPT ![Len(stack)] = f]
    /\ ret' = NoRet
    /\ pos' = p
    /\ log' = log \o ev
    /\ assigns' = assigns + na
    /\ last' = l
    /\ UNCHANGED <<root, buf, endian, status, result, dest, failed>>
    /\ UNCHANGED besideReader

\* The current call, with frame f, calls ReadInterface on a value of type t.
Call(f, t, v, l) ==
    /\ stack' = Append([stack EXCEPT ![Len(stack)] = f],
                       Frame(t, v, TRUE, pos, Len(log)))
    /\ ret' = NoRet
    /\ last' = l
    /\ UNCHANGED <<root, buf, endian, pos, status, result, dest,
                   log, failed, assigns>>
    /\ UNCHANGED besideReader

\* The current call returns err with its frame at f.  decoded says whether
\* the decoding itself (generic or custom) completed without error, nvalid
\* how often Validate was invoked and vres what it returned.
Return(f, err, p, ev, na, l, decoded, nvalid, vres) ==
    /\ stack' = SubSeq(stack, 1, Len(stack) - 1)
    /\ ret' = [err |-> err, v |-> f.v, t |-> f.t, decoded |-> decoded,
               nvalid |-> nvalid, vres |-> vres, p0 |-> f.p0, l0 |-> f.l0,
               ncond0 |-> f.ncond0, v0 |-> f.v0]
    /\ pos' = p
    /\ log' = log \o ev
    /\ assigns' = assigns + na
    /\ last' = l
    /\ failed' = IF failed = 0 /\ err # "nil" THEN Len(stack) ELSE failed
    /\ IF Len(stack) = 1
       THEN status' = "done" /\ result' = err /\ dest' = f.v
       ELSE UNCHANGED <<status, result, dest>>
    /\ UNCHANGED <<root, buf, endian>>
    /\ UNCHANGED besideReader

\* The current call returns the error err before its decoding completed.
Fail(f, err, p, ev, l) == Return(f, err, p, ev, 0, l, FALSE, 0, "none")

\* A run-time panic: nothing recovers it.
Panic(p, ev, l) ==
    /\ status' = "panicked"
    /\ pos' = p
    /\ log' = log \o ev
    /\ last' = l
    /\ UNCHANGED <<root, buf, endian, stack, ret, result, dest, failed, assigns>>
    /\ UNCHANGED besideReader

\* The call at the top of the stack is at pc and nothing is being returned
\* to it.
AtPc(pcs) == Running /\ ret.err = "none" /\ Top.pc \in pcs
\* A call it made has just returned to the call at the top of the stack.
Returned(pc) == Running /\ ret.err # "none" /\ Top.pc = pc
\* The call has passed the Reader and pointer checks of lines 60-66.
Generic(f) == f.pc = "entry" => (~f.t.reader /\ f.ptr)

(***************************************************************************)
(* ReadInterface, lines 59-68 and the cases other than Struct.             *)
(***************************************************************************)
\* if ri, ok := v.(Reader); ok { return ri.Read(r) }
\* The custom routine is the caller's code: here it made the read r through
\* the BinaryReader and returns the error of that read or, e, nil or an
\* error of its own.
CustomReturn(r, e) ==
    IF r.outcome = "err"
    THEN Return(Top, r.err, r.pos, r.ev, 0, [step |-> "custom"], FALSE, 0, "none")
    ELSE Return(Top, e, r.pos, r.ev, 0, [step |-> "custom"], e = "nil", 0, "none")

CustomRead ==
    /\ AtPc({"entry"})
    /\ Top.t.reader
    /\ \E k \in 0..1, e \in {"nil", "custom"} : CustomReturn(Read(k), e)

\* if t.Kind() != reflect.Ptr { return fmt.Errorf("Expected a pointer ...") }
NotPointer ==
    /\ AtPc({"entry"})
    /\ ~Top.t.reader
    /\ ~Top.ptr
    /\ Fail(Top, "notptr", pos, << >>, [step |-> "notptr"])

\* case reflect.Bool ... reflect.Float64: if d, err := r.Uint8(); err != nil
\* { return err } else { v2.SetUint(uint64(d)) }
ScalarSet(f, r) ==
    IF r.outcome = "err"
    THEN Fail(f, r.err, r.pos, r.ev,
              [step |-> "scalar", ok |-> FALSE, w |-> Width(f.t.kind), p |-> pos])
    ELSE Goto([f EXCEPT !.v = r.val, !.pc = "validate"],
              r.pos, r.ev, 1,
              [step |-> "scalar", ok |-> TRUE, w |-> Width(f.t.kind), p |-> pos])

ReadScalar ==
    /\ AtPc({"entry"})
    /\ Generic(Top)
    /\ Top.t.kind \in ScalarKinds
    /\ ScalarSet(Top, ScalarRead(Top.t.kind))

\* case reflect.Array, reflect.Slice: for i := 0; i < v2.Len(); i++ {
\*     r.ReadInterface(v2.Index(i).Addr().Interface())
ArrayNext ==
    /\ AtPc({"entry", "arrayloop"})
    /\ Generic(Top)
    /\ Top.t.kind \in {"array", "slice"}
    /\ IF Top.j < Len(Top.v)
       THEN Call([Top EXCEPT !.pc = "arraywait"], Top.t.elem, Top.v[Top.j + 1],
                 [step |-> "arraycall"])
       ELSE Goto([Top EXCEPT !.pc = "validate"], pos, << >>, 0,
                 [step |-> "arraydone"])

\*     ; err != nil { return err }
\* The element was decoded in place, so what the callee wrote stays.
ArrayReturn ==
    /\ Returned("arraywait")
    /\ IF ret.err # "nil"
       THEN Fail([Top EXCEPT !.v[Top.j + 1] = ret.v], ret.err, pos, << >>,
                 [step |-> "arrayret"])
       ELSE Goto([Top EXCEPT !.v[Top.j + 1] = ret.v, !.j = Top.j + 1,
                             !.pc = "arrayloop"],
                 pos, << >>, 0, [step |-> "arrayret"])

\* case reflect.String: one iteration of for i := 0; i < max; i++, with
\* max = math.MaxInt32, and v2.SetString(string(data)) when the loop ends.
\* u is the r.Uint8() of the iteration.
StringIter(f, u) ==
    IF f.j < MaxInt32
    THEN IF u.outcome = "err"
         THEN Fail(f, u.err, u.pos, u.ev, [step |-> "string"])
         ELSE IF u.val = 0
         THEN Goto([f EXCEPT !.v = f.data, !.pc = "validate"],
                   u.pos, u.ev, 1, [step |-> "string"])
         ELSE Goto([f EXCEPT !.data = Append(f.data, u.val), !.j = f.j + 1],
                   u.pos, u.ev, 0, [step |-> "string"])
    ELSE Goto([f EXCEPT !.v = f.data, !.pc = "validate"],
              pos, << >>, 1, [step |-> "string"])

StringStep ==
    /\ AtPc({"entry", "stringloop"})
    /\ Generic(Top)
    /\ Top.t.kind = "string"
    /\ StringIter([Top EXCEPT !.pc = "stringloop"], UintN(1))

\* default: return fmt.Errorf("Don't know how to read type %s", v2.Kind())
Unsupported ==
    /\ AtPc({"entry"})
    /\ Generic(Top)
    /\ Top.t.kind \notin ScalarKinds \cup {"array", "slice", "string", "struct"}
    /\ Fail(Top, "unsupported", pos, << >>, [step |-> "unsupported"])

\* if val, ok := v.(Validateable); ok { return val.Validate() }; return nil
\* Validate is the caller's code: it returns nil or an error.
Validate ==
    /\ AtPc({"validate"})
    /\ IF Top.t.validateable
       THEN \E e \in {"nil", "invalid"} :
               Return(Top, e, pos, << >>, 0, [step |-> "validate"], TRUE, 1, e)
       ELSE Return(Top, "nil", pos, << >>, 0, [step |-> "return"], TRUE, 0, "none")

(***************************************************************************)
(* ReadInterface, case reflect.Struct: the steps of one field.  In the     *)
(* operators below f is the frame of the call, fd the field f2 the loop is *)
(* at, and the last parameter what the tag of the step evaluated to.       *)
(***************************************************************************)
CurField(f) == f.t.fields[f.i]

\* The decoder without the continue of line 188.
CondNeverSkips(ev) == FALSE

\* } else if ev == 0 { continue }
CondSkips(ev) == ev = 0

\* A loop body that passes over the `skip` tag.
FieldIfNoSkip(f, fd, c) ==
    IF fd.tif # NoTag /\ c.err # "nil"
    THEN Fail(f, c.err, pos, << >>, [step |-> "begin"])
    ELSE Goto([f EXCEPT !.pc = "length"], pos, << >>, 0, [step |-> "begin"])

\* if fi := f2.Tag.Get("if"); fi != "" { ... }
FieldIf(f, fd, c) ==
    IF fd.tif = NoTag
    THEN Goto([f EXCEPT !.pc = "skip"], pos, << >>, 0, [step |-> "begin"])
    ELSE IF c.err # "nil"
    THEN Fail(f, c.err, pos, << >>, [step |-> "begin"])
    ELSE IF CondSkips(c.val)
    THEN Goto([f EXCEPT !.i = f.i + 1, !.pc = "field", !.cond = c.val,
                        !.ncond0 = f.ncond0 + Bool2Int(c.val = 0)],
              pos, << >>, 0,
              [step |-> "continue", i |-> f.i, cond |-> c.val,
               p |-> pos, n |-> Len(log), a |-> assigns])
    ELSE Goto([f EXCEPT !.pc = "skip", !.cond = c.val,
                        !.ncond0 = f.ncond0 + Bool2Int(c.val = 0)],
              pos, << >>, 0, [step |-> "begin"])

\* for i := 0; i < v2.NumField(); i++ { size = -1; the `if` tag }
FieldBegin ==
    /\ AtPc({"entry", "field"})
    /\ Generic(Top)
    /\ Top.t.kind = "struct"
    /\ IF Top.i > Len(Top.t.fields)
       THEN Goto([Top EXCEPT !.pc = "validate"], pos, << >>, 0,
                 [step |-> "fieldsdone"])
       ELSE FieldIf([Top EXCEPT !.size = -1, !.resolved = FALSE, !.cond = 1,
                                !.pv = pos],
                    CurField(Top), TagValue(Top.t, Top.v, CurField(Top).tif))

\* r.Seek(int64(ev), 1) of the `skip` tag: s is what the Seek returned.
SkipSeek(f, e, s) ==
    IF s.err # "nil"
    THEN Fail(f, s.err, s.pos, s.ev, [step |-> "skip"])
    ELSE Goto([f EXCEPT !.pc = "length"], s.pos, s.ev, 0,
              [step |-> "skip", off |-> e.val])

\* if l := f2.Tag.Get("skip"); l != "" { ... }
SkipTag(f, fd, e) ==
    IF fd.skip = NoTag
    THEN Goto([f EXCEPT !.pc = "length"], pos, << >>, 0, [step |-> "noskip"])
    ELSE IF e.err # "nil"
    THEN Fail(f, e.err, pos, << >>, [step |-> "skip"])
    ELSE SkipSeek(f, e, Seek(e.val))

FieldSkip ==
    /\ AtPc({"skip"})
    /\ SkipTag(Top, CurField(Top), TagValue(Top.t, Top.v, CurField(Top).skip))

\* The length markers of the `length` tag and the width each one reads.
LengthMarker(l) ==
    CASE l = <<"u","i","n","t","8">>     -> 1
      [] l = <<"u","i","n","t","1","6">> -> 2
      [] l = <<"u","i","n","t","3","2">> -> 4
      [] l = <<"u","i","n","t","6","4">> -> 8
      [] OTHER                           -> 0

\* if l := f2.Tag.Get("length"); l != "" { switch l { ... } }
\* w is the width of the marker (0 for an expression), u the read of the
\* length prefix, e the value of the expression.
LengthTag(f, fd, w, u, e) ==
    IF fd.length = NoTag
    THEN Goto([f EXCEPT !.pc = "value", !.pv = pos], pos, << >>, 0,
              [step |-> "nolength"])
    ELSE IF w # 0
    THEN IF u.outcome = "err"
         THEN Fail(f, u.err, u.pos, u.ev, [step |-> "length"])
         ELSE Goto([f EXCEPT !.size = u.val, !.resolved = TRUE,
                             !.pc = "value", !.pv = u.pos],
                   u.pos, u.ev, 0, [step |-> "length", w |-> w])
    ELSE IF e.err # "nil"
    THEN Fail(f, e.err, pos, << >>, [step |-> "length"])
    ELSE Goto([f EXCEPT !.size = e.val, !.resolved = TRUE,
                        !.pc = "value", !.pv = pos],
              pos, << >>, 0, [step |-> "length", w |-> 0])

FieldLength ==
    /\ AtPc({"length"})
    /\ LengthTag(Top, CurField(Top), LengthMarker(CurField(Top).length),
                 UintN(LengthMarker(CurField(Top).length)),
                 TagValue(Top.t, Top.v, CurField(Top).length))

\* The decoder without the loop of lines 247-252.
KeepBlock(data) == data

\* for i, v := range data { if v == '\u0000' { data = data[:i]; break } }
TruncAtNull(data) ==
    IF \E k \in 1..Len(data) : data[k] = 0
    THEN SubSeq(data, 1, (CHOOSE n \in 1..Len(data) :
                             data[n] = 0 /\ \A m \in 1..(n - 1) : data[m] # 0) - 1)
    ELSE data

\* case reflect.String, if size >= 0: data, err = r.Read(size), the cut at
\* the first null, f.SetString(string(data))
FixedSet(f, r) ==
    IF r.outcome = "err"
    THEN Fail(f, r.err, r.pos, r.ev,
              [step |-> "strfixed", ok |-> FALSE, i |-> f.i, n |-> f.size,
               p |-> pos, nlog |-> Len(log)])
    ELSE Goto([f EXCEPT !.v[f.i] = TruncAtNull(r.data), !.pc = "align"],
              r.pos, r.ev, 1,
              [step |-> "strfixed", ok |-> TRUE, i |-> f.i, n |-> f.size,
               p |-> pos, nlog |-> Len(log)])

StringFixed ==
    /\ AtPc({"value"})
    /\ CurField(Top).type.kind = "string"
    /\ Top.size >= 0
    /\ FixedSet(Top, Read(Top.size))

\* case reflect.String, else: max = math.MaxInt32, or the `max` tag
MaxTag(f, fd, m) ==
    IF fd.max = NoTag
    THEN Goto([f EXCEPT !.max = MaxInt32, !.j = 0, !.data = << >>, !.pc = "scan"],
              pos, << >>, 0, [step |-> "max"])
    ELSE IF m.err # "nil"
    THEN Fail(f, m.err, pos, << >>, [step |-> "max"])
    ELSE Goto([f EXCEPT !.max = m.val, !.j = 0, !.data = << >>, !.pc = "scan"],
              pos, << >>, 0, [step |-> "max"])

StringMax ==
    /\ AtPc({"value"})
    /\ CurField(Top).type.kind = "string"
    /\ Top.size < 0
    /\ MaxTag(Top, CurField(Top), TagValue(Top.t, Top.v, CurField(Top).max))

\* The loop with an off-by-one bound.
ScanOneMore(i, max) == i <= max

\* for i := 0; i < max; i++
ScanGoesOn(i, max) == i < max

\* One iteration of the scan for the terminator, with u its r.Uint8(), and
\* f.SetString(string(data)) once the loop has ended.
ScanIter(f, u, l) ==
    IF ScanGoesOn(f.j, f.max)
    THEN IF u.outcome = "err"
         THEN Fail(f, u.err, u.pos, u.ev, [step |-> "scan"])
         ELSE IF u.val = 0
         THEN Goto([f EXCEPT !.size = f.j + 1, !.v[f.i] = f.data, !.pc = "align"],
                   u.pos, u.ev, 1, l)
         ELSE Goto([f EXCEPT !.data = Append(f.data, u.val), !.j = f.j + 1],
                   u.pos, u.ev, 0, [step |-> "scan"])
    ELSE Goto([f EXCEPT !.v[f.i] = f.data, !.pc = "align"], pos, << >>, 1, l)

StringScan ==
    /\ AtPc({"scan"})
    /\ ScanIter(Top, UintN(1),
                [step |-> "strscan", i |-> Top.i, max |-> Top.max,
                 p |-> Top.pv, tagged |-> CurField(Top).length # NoTag])

\* if size == -1 { return fmt.Errorf("SliceHeader require a known length") }
MissingLength(size) == size = -1

\* case reflect.Slice: the length check; for an element kind of Int8
\* b, err := r.Read(size) and f.Set(reflect.ValueOf(b)), else
\* reflect.MakeSlice(f.Type(), size, size).
\* b is a []byte, which is not assignable to a slice of an Int8 kind, so Set
\* panics; MakeSlice panics for a negative length.
SliceStart(f, fd, r, l) ==
    IF MissingLength(f.size)
    THEN Fail(f, "missinglength", pos, << >>, [l EXCEPT !.rejected = TRUE])
    ELSE IF fd.type.elem.kind = "int8"
    THEN IF r.outcome = "err"
         THEN Fail(f, r.err, r.pos, r.ev, l)
         ELSE Panic(r.pos, r.ev, [l EXCEPT !.panicked = TRUE])
    ELSE IF f.size < 0
    THEN Panic(pos, << >>, [l EXCEPT !.panicked = TRUE])
    ELSE Goto([f EXCEPT !.v3 = [k \in 1..f.size |-> Zero(fd.type.elem)],
                        !.j = 0, !.pc = "elems"],
              pos, << >>, 0, l)

SliceField ==
    /\ AtPc({"value"})
    /\ CurField(Top).type.kind = "slice"
    /\ SliceStart(Top, CurField(Top), Read(Top.size),
                  [step |-> "slice", i |-> Top.i, n |-> Top.size,
                   resolved |-> Top.resolved, rejected |-> FALSE,
                   panicked |-> FALSE])

\* for i := 0; i < size; i++ { err = r.ReadInterface(v3.Index(i)...) }
\* and f.Set(v3) after the loop
SliceElems ==
    /\ AtPc({"elems"})
    /\ IF Top.j < Top.size
       THEN Call([Top EXCEPT !.pc = "elemwait"], CurField(Top).type.elem,
                 Top.v3[Top.j + 1], [step |-> "elemcall", i |-> Top.i, k |-> Top.j])
       ELSE Goto([Top EXCEPT !.v[Top.i] = Top.v3, !.pc = "align"], pos, << >>, 1,
                 [step |-> "slicedone", i |-> Top.i, n |-> Top.size,
                  p |-> Top.pv, calls |-> Top.j])

\* The loop of line 290 with the error of an element dropped.
ElemNeverFailed(err) == FALSE

\* ; err != nil { return err }
ElemFailed(err) == err # "nil"

ElemReturn ==
    /\ Returned("elemwait")
    /\ IF ElemFailed(ret.err)
       THEN Fail([Top EXCEPT !.v3[Top.j + 1] = ret.v], ret.err, pos, << >>,
                 [step |-> "elemret"])
       ELSE Goto([Top EXCEPT !.v3[Top.j + 1] = ret.v, !.j = Top.j + 1,
                             !.pc = "elems"],
                 pos, << >>, 0, [step |-> "elemret", k |-> Top.j])

\* default: r.ReadInterface(f.Addr().Interface())
FieldDefault ==
    /\ AtPc({"value"})
    /\ CurField(Top).type.kind \notin {"string", "slice"}
    /\ Call([Top EXCEPT !.pc = "fieldwait"], CurField(Top).type, Top.v[Top.i],
            [step |-> "fieldcall"])

\* ; err != nil { return err } else { size = int(f.Type().Size()) }
\* The field was decoded in place, so what the callee wrote stays.
FieldReturn ==
    /\ Returned("fieldwait")
    /\ IF ret.err # "nil"
       THEN Fail([Top EXCEPT !.v[Top.i] = ret.v], ret.err, pos, << >>,
                 [step |-> "fieldret"])
       ELSE Goto([Top EXCEPT !.v[Top.i] = ret.v,
                             !.size = GoSize(CurField(Top).type),
                             !.pc = "align"],
                 pos, << >>, 0, [step |-> "fieldret"])

\* if align < size { seek = ((size + (align - 1)) &^ (align - 1)) - size }
\* else if align > size { seek = align - size }
AlignSeek(size, align) ==
    IF align < size THEN AndNot(size + (align - 1), align - 1) - size
    ELSE IF align > size THEN align - size
    ELSE 0

\* if seek > 0 { if _, err := r.Seek(int64(seek), 1); err != nil { return err } }
\* and the end of the loop body.  s is what the Seek returns if it is made.
AlignDo(f, seek, s, l) ==
    IF seek > 0
    THEN IF s.err # "nil"
         THEN Fail(f, s.err, s.pos, s.ev, [l EXCEPT !.seek = seek])
         ELSE Goto([f EXCEPT !.i = f.i + 1, !.pc = "field"], s.pos, s.ev, 0,
                   [l EXCEPT !.seek = seek])
    ELSE Goto([f EXCEPT !.i = f.i + 1, !.pc = "field"], pos, << >>, 0, l)

\* if al := f2.Tag.Get("align"); al != "" { ... }
AlignTag(f, fd, a, seek) ==
    IF fd.align = NoTag
    THEN Goto([f EXCEPT !.i = f.i + 1, !.pc = "field"], pos, << >>, 0,
              [step |-> "noalign"])
    ELSE IF a.err # "nil"
    THEN Fail(f, a.err, pos, << >>, [step |-> "alignerr"])
    ELSE AlignDo(f, seek, Seek(seek),
                 [step |-> "align", i |-> f.i, size |-> f.size, align |-> a.val,
                  seek |-> 0, consumed |-> pos - f.pv, kind |-> fd.type.kind])

AlignWith(f, fd, a) == AlignTag(f, fd, a, AlignSeek(f.size, a.val))

FieldAlign ==
    /\ AtPc({"align"})
    /\ AlignWith(Top, CurField(Top), TagValue(Top.t, Top.v, CurField(Top).align))

(***************************************************************************)
(* The destinations and byte sources the decoder is run on.                *)
(***************************************************************************)
U8   == Scalar("uint8")
U16  == Scalar("uint16")
U32  == Scalar("uint32")
U64  == Scalar("uint64")
I8   == Scalar("int8")
I16  == Scalar("int16")
Bool == Scalar("bool")

\* Tag texts.
Txt0      == <<"0">>
Txt1      == <<"1">>
Txt2      == <<"2">>
Txt3      == <<"3">>
Txt4      == <<"4">>
Txt5      == <<"5">>
TxtN      == <<"N">>
TxtA      == <<"A">>
TxtNeq1   == <<"N"," ","=","="," ","1">>
TxtNm1    == <<"N","-","1">>
TxtNm2    == <<"N","-","2">>
TxtNeg1   == <<"0","-","1">>
TxtHN     == <<"H",".","N">>
TxtBad    == <<"1","+">>
TxtX      == <<"X">>
TxtUint8  == <<"u","i","n","t","8">>
TxtUint16 == <<"u","i","n","t","1","6">>
TxtUint32 == <<"u","i","n","t","3","2">>
TxtUint64 == <<"u","i","n","t","6","4">>

\* struct { N uint8; A uint16 `if:"N"`; B uint8 `if:"N == 1" skip:"1" align:"2"` }
\* with a Validate method
Cond == WithValidate(StructOf(<<
    Plain(<<"N">>, U8),
    Field(<<"A">>, U16, TxtN, NoTag, NoTag, NoTag, NoTag),
    Field(<<"B">>, U8, TxtNeq1, Txt1, NoTag, NoTag, Txt2) >>))

\* struct { A uint8 `if:"0"`
\*          S string `if:"A" skip:"1" length:"uint8" max:"1" align:"4"` }
AllOff == StructOf(<<
    Field(<<"A">>, U8, Txt0, NoTag, NoTag, NoTag, NoTag),
    Field(<<"S">>, StringT, TxtA, Txt1, TxtUint8, Txt1, Txt4) >>)

\* struct { N uint8; S string `length:"N" align:"2"` }
StrFix == StructOf(<<
    Plain(<<"N">>, U8),
    Field(<<"S">>, StringT, NoTag, NoTag, TxtN, NoTag, Txt2) >>)

\* struct { T string `max:"2" align:"4"`; Z uint8 }
StrScan == StructOf(<<
    Field(<<"T">>, StringT, NoTag, NoTag, NoTag, Txt2, Txt4),
    Plain(<<"Z">>, U8) >>)

\* struct { S string; Z uint8 }
StrEnd == StructOf(<< Plain(<<"S">>, StringT), Plain(<<"Z">>, U8) >>)

\* struct { S string `length:"0-1" max:"1"` }
StrNeg == StructOf(<<
    Field(<<"S">>, StringT, NoTag, NoTag, TxtNeg1, Txt1, NoTag) >>)

\* struct { S string `length:"uint16"` }
Str16 == StructOf(<<
    Field(<<"S">>, StringT, NoTag, NoTag, TxtUint16, NoTag, NoTag) >>)

\* struct { S string `length:"uint32"` }
Str32 == StructOf(<<
    Field(<<"S">>, StringT, NoTag, NoTag, TxtUint32, NoTag, NoTag) >>)

\* struct { S string `length:"uint64"`; Z uint8 }
Str64 == StructOf(<<
    Field(<<"S">>, StringT, NoTag, NoTag, TxtUint64, NoTag, NoTag),
    Plain(<<"Z">>, U8) >>)

\* struct { S string `length:"3" align:"4"`; Z uint8 }
Str3 == StructOf(<<
    Field(<<"S">>, StringT, NoTag, NoTag, Txt3, NoTag, Txt4),
    Plain(<<"Z">>, U8) >>)

\* struct { S string `length:"5" align:"4"` }
Str5 == StructOf(<<
    Field(<<"S">>, StringT, NoTag, NoTag, Txt5, NoTag, Txt4) >>)

\* struct { L []uint8 `length:"uint8" align:"2"` }
SliceU8 == StructOf(<<
    Field(<<"L">>, SliceOf(U8), NoTag, NoTag, TxtUint8, NoTag, Txt2) >>)

\* struct { W []uint16 `length:"1" align:"4"`; Z uint8 }
SliceU16 == StructOf(<<
    Field(<<"W">>, SliceOf(U16), NoTag, NoTag, Txt1, NoTag, Txt4),
    Plain(<<"Z">>, U8) >>)

\* struct { B []int8 `length:"uint8"` }
SliceI8 == StructOf(<<
    Field(<<"B">>, SliceOf(I8), NoTag, NoTag, TxtUint8, NoTag, NoTag) >>)

\* struct { N uint8; V []uint8 `length:"N-2"` }
SliceExpr == StructOf(<<
    Plain(<<"N">>, U8),
    Field(<<"V">>, SliceOf(U8), NoTag, NoTag, TxtNm2, NoTag, NoTag) >>)

\* struct { V []uint8 }
SliceNoLen == StructOf(<< Plain(<<"V">>, SliceOf(U8)) >>)

\* struct { N uint8; E []Pair `length:"N"` }, Pair = struct { A uint8 } with
\* a Validate method
Pair == WithValidate(StructOf(<< Plain(<<"A">>, U8) >>))
SliceRec == StructOf(<<
    Plain(<<"N">>, U8),
    Field(<<"E">>, SliceOf(Pair), NoTag, NoTag, TxtN, NoTag, NoTag) >>)

\* struct { H Inner `align:"4"`; Z uint8 },
\* Inner = struct { N uint8; S string `if:"N" length:"uint8"` }
Inner == StructOf(<<
    Plain(<<"N">>, U8),
    Field(<<"S">>, StringT, TxtN, NoTag, TxtUint8, NoTag, NoTag) >>)
Nested == StructOf(<<
    Field(<<"H">>, Inner, NoTag, NoTag, NoTag, NoTag, Txt4),
    Plain(<<"Z">>, U8) >>)

\* struct { H Hdr; S string `length:"H.N"` }, Hdr = struct { N uint8 }
Hdr == StructOf(<< Plain(<<"N">>, U8) >>)
Dotted == StructOf(<<
    Plain(<<"H">>, Hdr),
    Field(<<"S">>, StringT, NoTag, NoTag, TxtHN, NoTag, NoTag) >>)

\* struct { N uint8; X uint8 `skip:"N-1"` }
SkipExpr == StructOf(<<
    Plain(<<"N">>, U8),
    Field(<<"X">>, U8, NoTag, TxtNm1, NoTag, NoTag, NoTag) >>)

\* struct { X uint8 `skip:"0-1"` }
SkipBack == StructOf(<<
    Field(<<"X">>, U8, NoTag, TxtNeg1, NoTag, NoTag, NoTag) >>)

\* struct { A uint32 `align:"3"`; Z uint8 }
Align3 == StructOf(<<
    Field(<<"A">>, U32, NoTag, NoTag, NoTag, NoTag, Txt3),
    Plain(<<"Z">>, U8) >>)

\* struct { P [2]uint8 `align:"4"`; Q int16 `align:"2"` }
ArrayField == StructOf(<<
    Field(<<"P">>, ArrayOf(2, U8), NoTag, NoTag, NoTag, NoTag, Txt4),
    Field(<<"Q">>, I16, NoTag, NoTag, NoTag, NoTag, Txt2) >>)

\* A type with a Read method and a Validate method, and a struct holding one:
\* struct { C Custom; Z uint8 }
Custom == WithReader(WithValidate(StructOf(<< Plain(<<"A">>, U8) >>)))
HoldsCustom == StructOf(<< Plain(<<"C">>, Custom), Plain(<<"Z">>, U8) >>)

\* struct { A uint8 `if:"1+"` }
BadParse == StructOf(<<
    Field(<<"A">>, U8, TxtBad, NoTag, NoTag, NoTag, NoTag) >>)

\* struct { N uint8; V []uint8 `length:"X"` }
BadEval == StructOf(<<
    Plain(<<"N">>, U8),
    Field(<<"V">>, SliceOf(U8), NoTag, NoTag, TxtX, NoTag, NoTag) >>)

\* struct { N uint8; M map[int]int }
HoldsMap == StructOf(<< Plain(<<"N">>, U8), Plain(<<"M">>, MapT) >>)

Dest(t) == [t |-> t, v |-> Zero(t), ptr |-> TRUE]

Destinations == <<
    Dest(Cond), Dest(AllOff), Dest(StrFix), Dest(StrScan), Dest(StrEnd),
    Dest(StrNeg), Dest(Str16), Dest(Str32), Dest(Str64), Dest(Str3),
    Dest(Str5), Dest(SliceU8), Dest(SliceU16), Dest(SliceI8),
    Dest(SliceExpr), Dest(SliceNoLen), Dest(SliceRec), Dest(Nested),
    Dest(Dotted), Dest(SkipExpr), Dest(SkipBack), Dest(Align3),
    Dest(ArrayField), Dest(Custom), Dest(HoldsCustom), Dest(BadParse),
    Dest(BadEval), Dest(HoldsMap), Dest(MapT), Dest(StringT),
    Dest(WithValidate(U16)), Dest(U64), Dest(I16), Dest(Bool),
    Dest(ArrayOf(2, U8)),
    \* a slice the caller made with one element
    [t |-> SliceOf(U8), v |-> <<0>>, ptr |-> TRUE],
    \* a value handed over without taking its address
    [t |-> U8, v |-> 0, ptr |-> FALSE] >>

\* The byte alphabet: the null byte and two others.
Bytes == {0, 1, 2}

\* A source long enough for a 64 bit read and a five byte string.
WideBuf == <<0, 0, 0, 0, 0, 0, 0, 0, 1, 2>>

Buffers == UNION {[1..n -> Bytes] : n \in 0..MaxBuf} \cup {WideBuf}

Init ==
    /\ \E k \in 1..Len(Destinations) : root = Destinations[k]
    /\ buf \in Buffers
    /\ endian \in {"little", "big"}
    /\ pos = 0
    /\ stack = <<Frame(root.t, root.v, root.ptr, 0, 0)>>
    /\ ret = NoRet
    /\ status = "running"
    /\ result = "none"
    /\ dest = root.v
    /\ log = << >>
    /\ failed = 0
    /\ assigns = 0
    /\ last = [step |-> "init"]
    /\ ExprIdle
    /\ ArrayIdle
    /\ TreeIdle
    /\ RegionsIdle

Next ==
    \/ CustomRead
    \/ NotPointer
    \/ ReadScalar
    \/ ArrayNext
    \/ ArrayReturn
    \/ StringStep
    \/ Unsupported
    \/ Validate
    \/ FieldBegin
    \/ FieldSkip
    \/ FieldLength
    \/ StringFixed
    \/ StringMax
    \/ StringScan
    \/ SliceField
    \/ SliceElems
    \/ ElemReturn
    \/ FieldDefault
    \/ FieldReturn
    \/ FieldAlign

Spec == Init /\ [][Next]_vars

(***************************************************************************)
(* The expression package on its own: a text is parsed and, if it parsed,  *)
(* evaluated against the struct of TestEval.                               *)
(***************************************************************************)
\* The number of atoms the generated texts are built from.
MaxAtom == 4

TxtLength    == <<"L","e","n","g","t","h">>
TxtSub       == <<"S","u","b">>
TxtSomething == <<"S","o","m","e","t","h","i","n","g">>

\* var str = reflect.ValueOf(struct { Length int; Sub s }{3, s{10}}),
\* type s struct { Something int }
TestType ==
    StructOf(<< Plain(TxtLength, Scalar("int")),
                Plain(TxtSub, StructOf(<< Plain(TxtSomething, Scalar("int")) >>)) >>)
TestValue == << 3, << 10 >> >>

\* The tests of TestEval.
EvalTests == <<
    [in |-> <<"1">>, out |-> 1],
    [in |-> <<"1","+","2">>, out |-> 3],
    [in |-> <<"(","3","*","4",")","+","2">>, out |-> 14],
    [in |-> <<"L","e","n","g","t","h">>, out |-> 3],
    [in |-> <<"L","e","n","g","t","h","+","1">>, out |-> 4],
    [in |-> <<"L","e","n","g","t","h","-","1">>, out |-> 2],
    [in |-> <<"(","L","e","n","g","t","h","+","3",")","&","^","3">>, out |-> 4],
    [in |-> <<"(","(","L","e","n","g","t","h","-","1",")","+","3",")","&","^","3">>, out |-> 4],
    [in |-> <<"L","e","n","g","t","h"," ","=","="," ","3">>, out |-> 1],
    [in |-> <<"L","e","n","g","t","h"," ","=","="," ","4">>, out |-> 0],
    [in |-> <<"L","e","n","g","t","h"," ","<"," ","4">>, out |-> 1],
    [in |-> <<"L","e","n","g","t","h"," ",">"," ","3">>, out |-> 0],
    [in |-> <<"L","e","n","g","t","h"," ",">","="," ","3">>, out |-> 1],
    [in |-> <<"S","u","b",".","S","o","m","e","t","h","i","n","g">>, out |-> 10],
    [in |-> <<"S","u","b",".","S","o","m","e","t","h","i","n","g"," ","+"," ","L","e","n","g","t","h">>, out |-> 13] >>

\* Operands to build texts from: the text, the node it must parse to and
\* the value it has in the struct of TestEval.
ConstAtom(text, value) ==
    [text |-> text, node |-> [tag |-> "const", text |-> text], value |-> value]
PathAtom(text, ids, value) ==
    [text |-> text, node |-> [tag |-> "path", ids |-> ids], value |-> value]
Atoms == <<
    ConstAtom(<<"1">>, 1),
    ConstAtom(<<"2">>, 2),
    ConstAtom(<<"3">>, 3),
    PathAtom(TxtLength, <<TxtLength>>, 3),
    PathAtom(TxtSub \o <<".">> \o TxtSomething, <<TxtSub, TxtSomething>>, 10),
    ConstAtom(<<"0","x","1","0">>, 16) >>

Pad(sp) == IF sp THEN <<" ">> ELSE << >>
\* The text `x op y` of the k-th operator, with or without blanks.
BinText(x, k, y, sp) == x \o Pad(sp) \o OpOrder[k].tok \o Pad(sp) \o y
InParens(x) == <<"(">> \o x \o <<")">>

\* The operators of the texts with a computed right operand: a shift by a
\* computed amount leaves the integers the model computes with.
RightOps == {k \in 1..Len(OpOrder) : OpOrder[k].op \notin {"shl", "shr"}}

\* The texts the parser is run on, each with how it was built:
\*   atom   a            bin    a op b
\*   chain  a op b op2 c left   (a op b) op2 a      right  a op (b op2 a)
\*   test   an input of TestEval, with the value the test expects
ExprInputs ==
    {[form |-> "atom", a |-> a, text |-> Atoms[a].text] : a \in 1..MaxAtom}
    \cup {[form |-> "bin", a |-> a, b |-> b, k |-> k, sp |-> sp,
           text |-> BinText(Atoms[a].text, k, Atoms[b].text, sp)] :
          a \in 1..MaxAtom, b \in 1..MaxAtom, k \in 1..Len(OpOrder),
          sp \in BOOLEAN}
    \cup {[form |-> "chain", a |-> a, b |-> b, c |-> c, k |-> k, k2 |-> k2,
           text |-> BinText(BinText(Atoms[a].text, k, Atoms[b].text, FALSE),
                            k2, Atoms[c].text, FALSE)] :
          a \in 1..MaxAtom, b \in 1..MaxAtom, c \in 1..MaxAtom,
          k \in 1..Len(OpOrder), k2 \in 1..Len(OpOrder)}
    \cup {[form |-> "left", a |-> a, b |-> b, k |-> k, k2 |-> k2,
           text |-> BinText(InParens(BinText(Atoms[a].text, k, Atoms[b].text, FALSE)),
                            k2, Atoms[a].text, FALSE)] :
          a \in 1..MaxAtom, b \in 1..MaxAtom,
          k \in 1..Len(OpOrder), k2 \in 1..Len(OpOrder)}
    \cup {[form |-> "right", a |-> a, b |-> b, k |-> k, k2 |-> k2,
           text |-> BinText(Atoms[a].text, k,
                            InParens(BinText(Atoms[b].text, k2, Atoms[a].text, FALSE)),
                            FALSE)] :
          a \in 1..MaxAtom, b \in 1..MaxAtom,
          k \in RightOps, k2 \in 1..Len(OpOrder)}
    \cup {[form |-> "test", text |-> EvalTests[n].in, out |-> EvalTests[n].out] :
          n \in 1..Len(EvalTests)}

\* p.Parse(test.in)
Parse ==
    /\ expr.form # "none"
    /\ ast = NotParsed
    /\ ast' = Expression(expr.text)
    /\ UNCHANGED <<expr, val, readerVars, arrayVars, treeVars, regionVars, lockVars>>

\* Eval(&str, p.RootNode())
Evaluated(r) == [done |-> TRUE, ok |-> r.ok, val |-> r.val]
Evaluate ==
    /\ ast.ok
    /\ ~val.done
    /\ val' = Evaluated(Eval(TestType, TestValue, ast.node))
    /\ UNCHANGED <<expr, ast, readerVars, arrayVars, treeVars, regionVars, lockVars>>

ReaderIdle ==
    /\ root = [t |-> MapT, v |-> << >>, ptr |-> FALSE]
    /\ buf = << >>
    /\ endian = "little"
    /\ pos = 0
    /\ stack = << >>
    /\ ret = NoRet
    /\ status = "idle"
    /\ result = "none"
    /\ dest = << >>
    /\ log = << >>
    /\ failed = 0
    /\ assigns = 0
    /\ last = [step |-> "idle"]

InitExpr ==
    /\ expr \in ExprInputs
    /\ ast = NotParsed
    /\ val = NotEvaluated
    /\ ReaderIdle
    /\ ArrayIdle
    /\ TreeIdle
    /\ RegionsIdle

NextExpr == Parse \/ Evaluate

SpecExpr == InitExpr /\ [][NextExpr]_vars

(***************************************************************************)
(* The container package: Array and its implementations.  A value handed   *)
(* to an array is an int or something else; the model of an array is the   *)
(* sequence of its elements (index 0 of the code is element 1).  A call    *)
(* yields [out, err, val, model, fwd, notes]: out is "panic" when the call *)
(* panicked, err the error returned, val the value returned, model the     *)
(* model afterwards, fwd the calls that reached the innermost array and    *)
(* notes the notifications sent to the observers.                          *)
(***************************************************************************)
\* The longest array of the caller's.
MaxLen == 2

IntData(n) == [isInt |-> TRUE, n |-> n]
OtherData  == [isInt |-> FALSE, n |-> 0]
Nil        == [isInt |-> FALSE, n |-> -1]
Datas      == {IntData(1), IntData(2), OtherData}

\* InsertedData{index}, RemovedData{i, olddata}
InsertedData(index)     == [type |-> "InsertedData", Index |-> index]
RemovedData(i, olddata) == [type |-> "RemovedData", Index |-> i, Data |-> olddata]

Returns(err, v, model) ==
    [out |-> "ok", err |-> err, val |-> v, model |-> model,
     fwd |-> << >>, notes |-> << >>]
\* An index or slice bound out of range.
Panics(model) ==
    [out |-> "panic", err |-> "nil", val |-> Nil, model |-> model,
     fwd |-> << >>, notes |-> << >>]

\* nmodel of Insert: the elements with data put in at index.
Inserted(model, index, data) ==
    SubSeq(model, 1, index) \o <<data>> \o SubSeq(model, index + 1, Len(model))
\* copy(a.model[i:], a.model[i+1:]): the elements after i move down by one
\* and the length stays.
ShiftedDown(model, i) ==
    [k \in 1..Len(model) |->
        IF k >= i + 1 /\ k < Len(model) THEN model[k + 1] ELSE model[k]]

\* BasicArray.Insert: nmodel is built and dropped, a.model is not assigned.
BasicInsert(model, index, data) ==
    IF index < 0 \/ index > Len(model) THEN Panics(model)
    ELSE IF Len(Inserted(model, index, data)) # Len(model) + 1 THEN Panics(model)
    ELSE Returns("nil", Nil, model)

\* BasicArray.Remove
BasicRemove(model, i) ==
    IF i < 0 \/ i >= Len(model) THEN Panics(model)
    ELSE Returns("nil", model[i + 1], ShiftedDown(model, i))

\* BasicArray.Get
BasicGet(model, index) ==
    IF index < 0 \/ index >= Len(model) THEN Panics(model)
    ELSE Returns("nil", model[index + 1], model)

\* IntArray.Insert
IntInsert(model, index, data) ==
    IF ~data.isInt THEN Returns("ErrNotInt", Nil, model)
    ELSE BasicInsert(model, index, data)

\* An Array of the caller's that keeps what it is given; e is the error its
\* Insert or Remove chooses to return.
CallerInsert(model, index, data, e) ==
    IF index < 0 \/ index > Len(model) THEN Panics(model)
    ELSE IF e # "nil" THEN Returns(e, Nil, model)
    ELSE Returns("nil", Nil, Inserted(model, index, data))
CallerRemove(model, i, e) ==
    IF i < 0 \/ i >= Len(model) THEN Panics(model)
    ELSE IF e # "nil" THEN Returns(e, Nil, model)
    ELSE Returns("nil", model[i + 1],
                 SubSeq(model, 1, i) \o SubSeq(model, i + 2, Len(model)))

\* The innermost array a called: the call is noted in fwd.
Forwarded(r, call) == [r EXCEPT !.fwd = <<call>>]
InnerInsert(a, index, data, e) ==
    Forwarded(CASE a.kind = "basic" -> BasicInsert(a.model, index, data)
                [] a.kind = "int"   -> IntInsert(a.model, index, data)
                [] OTHER            -> CallerInsert(a.model, index, data, e),
              [op |-> "Insert", index |-> index, data |-> data])
InnerRemove(a, i, e) ==
    Forwarded(IF a.kind \in {"basic", "int"} THEN BasicRemove(a.model, i)
              ELSE CallerRemove(a.model, i, e),
              [op |-> "Remove", index |-> i])
InnerGet(a, index) ==
    Forwarded(BasicGet(a.model, index), [op |-> "Get", index |-> index])

\* if index < 0 || index > b.Len()
InsertOOB(index, len) == index < 0 \/ index > len
\* The check of Remove written as the check of Insert.
RemoveOOBAsInsert(index, len) == index < 0 \/ index > len
\* if index < 0 || index >= b.Len()
RemoveOOB(index, len) == index < 0 \/ index >= len

\* BoundsCheckingArray.Insert, Remove, Get around the array a
BoundsInsert(a, index, data, e) ==
    IF InsertOOB(index, Len(a.model)) THEN Returns("ErrIndexOOB", Nil, a.model)
    ELSE InnerInsert(a, index, data, e)
BoundsRemove(a, i, e) ==
    IF RemoveOOB(i, Len(a.model)) THEN Returns("ErrIndexOOB", Nil, a.model)
    ELSE InnerRemove(a, i, e)
BoundsGet(a, index) ==
    IF index < 0 \/ index >= Len(a.model) THEN Returns("nil", Nil, a.model)
    ELSE InnerGet(a, index)

\* What the ObservableArray a wraps: a BoundsCheckingArray or the array.
WrappedInsert(a, index, data, e) ==
    IF a.checked THEN BoundsInsert(a, index, data, e)
    ELSE InnerInsert(a, index, data, e)
WrappedRemove(a, i, e) ==
    IF a.checked THEN BoundsRemove(a, i, e) ELSE InnerRemove(a, i, e)
WrappedGet(a, index) ==
    IF a.checked THEN BoundsGet(a, index) ELSE InnerGet(a, index)

\* util.BasicObservable.NotifyObservers hands the event to the observers,
\* once; its source is not among the sources.
NotifyObservers(note) == <<note>>

\* An ObservableArray that notifies whatever the wrapped call returned.
NotifyAlways(r, note) ==
    IF r.out = "panic" THEN r ELSE [r EXCEPT !.notes = NotifyObservers(note)]

\* if err := a.Array.Insert(index, data); err != nil { return err }
\* a.NotifyObservers(...); r is what the wrapped call did.
NotifyIfNil(r, note) ==
    IF r.out = "panic" \/ r.err # "nil" THEN r
    ELSE [r EXCEPT !.notes = NotifyObservers(note)]

\* ObservableArray.Insert and Remove
ObservedRemoved(r, i) == NotifyIfNil(r, RemovedData(i, r.val))
ObservableInsert(a, index, data, e) ==
    NotifyIfNil(WrappedInsert(a, index, data, e), InsertedData(index))
ObservableRemove(a, i, e) == ObservedRemoved(WrappedRemove(a, i, e), i)

\* A call on the outermost array, and what it leaves.
Called(call, r) ==
    /\ acall' = [op |-> call.op, index |-> call.index, data |-> call.data,
                 e |-> call.e, before |-> arr.model, out |-> r.out,
                 err |-> r.err, val |-> r.val, fwd |-> r.fwd, notes |-> r.notes]
    /\ arr' = [arr EXCEPT !.model = r.model]
    /\ UNCHANGED <<readerVars, exprVars, treeVars, regionVars, lockVars>>

Indices == -1..(MaxLen + 1)
Refusals(a) == IF a.kind = "caller" THEN {"nil", "refused"} ELSE {"nil"}

ArrayInsert ==
    /\ arr.kind # "none"
    /\ acall.out # "panic"
    /\ Len(arr.model) < MaxLen
    /\ \E index \in Indices, data \in Datas, e \in Refusals(arr) :
          Called([op |-> "Insert", index |-> index, data |-> data, e |-> e],
                 IF arr.observed THEN ObservableInsert(arr, index, data, e)
                 ELSE WrappedInsert(arr, index, data, e))

ArrayRemove ==
    /\ arr.kind # "none"
    /\ acall.out # "panic"
    /\ \E i \in Indices, e \in Refusals(arr) :
          Called([op |-> "Remove", index |-> i, data |-> Nil, e |-> e],
                 IF arr.observed THEN ObservableRemove(arr, i, e)
                 ELSE WrappedRemove(arr, i, e))

ArrayGet ==
    /\ arr.kind # "none"
    /\ acall.out # "panic"
    /\ \E index \in Indices :
          Called([op |-> "Get", index |-> index, data |-> Nil, e |-> "nil"],
                 WrappedGet(arr, index))

\* The zero value of an array, bare or wrapped.
InitArrays ==
    /\ arr \in [kind : {"basic", "int", "caller"}, checked : BOOLEAN,
                observed : BOOLEAN, model : {<< >>}]
    /\ acall = NoCall
    /\ ReaderIdle
    /\ ExprIdle
    /\ TreeIdle
    /\ RegionsIdle

NextArrays == ArrayInsert \/ ArrayRemove \/ ArrayGet

SpecArrays == InitArrays /\ [][NextArrays]_vars

(***************************************************************************)
(* The container package: Tree.  A Node is the record of its Data and its  *)
(* two Children, a child being a Node or NilNode; the elements are the     *)
(* numbers 1..MaxKey under their order, which stands for Compare.  A call  *)
(* on a node yields [panic, node]: whether it panicked and what the        *)
(* pointer that led to the node points to afterwards.                      *)
(***************************************************************************)
\* The greatest element.
MaxKey == 4

Keys == 1..MaxKey

\* cmp(data, n.Data)
Compare(a, b) == IF a < b THEN "Less" ELSE IF a > b THEN "Greater" ELSE "Equal"

Stays(n)  == [panic |-> FALSE, node |-> n]
NilDeref  == [panic |-> TRUE, node |-> NilNode]
\* What the call r on the Root n leaves of it.
Kept(n, r) == IF r.panic THEN [panic |-> TRUE, node |-> n] ELSE r
\* The node n with what a call did to its child c (0 or 1).
WithChild(n, c, r) ==
    [panic |-> r.panic,
     node  |-> IF r.panic THEN n ELSE [n EXCEPT !.Children[c + 1] = r.node]]

\* Node.Walk: what is sent on the channel, in order.
RECURSIVE Walk(_)
Walk(n) ==
    (IF n.Children[1] # NilNode THEN Walk(n.Children[1]) ELSE << >>)
    \o (IF n.Data # 0 THEN <<n.Data>> ELSE << >>)
    \o (IF n.Children[2] # NilNode THEN Walk(n.Children[2]) ELSE << >>)

\* Node.delete on the node n; hasParent: parent != nil.
RECURSIVE delete(_, _)
delete(n, hasParent) ==
    CASE n.Children[1] = NilNode /\ n.Children[2] = NilNode ->
            IF hasParent THEN Stays(NilNode) ELSE Stays([n EXCEPT !.Data = 0])
      [] n.Children[1] = NilNode /\ n.Children[2] # NilNode ->
            Stays(n.Children[2])
      [] n.Children[1] # NilNode /\ n.Children[2] # NilNode ->
            Stays(n.Children[1])
      [] OTHER ->
            IF n.Children[1].Children[2] # NilNode
            THEN WithChild([n EXCEPT !.Data = n.Children[1].Children[2].Data], 0,
                           WithChild(n.Children[1], 1,
                                     delete(n.Children[1].Children[2], TRUE)))
            ELSE NilDeref

\* Tree.Delete under the node n: find and delete.  "Unable to find that
\* node" is a panic as well.
RECURSIVE Delete(_, _, _)
Delete(n, data, hasParent) ==
    IF n.Data = 0 \/ Compare(data, n.Data) = "Equal" THEN delete(n, hasParent)
    ELSE IF Compare(data, n.Data) = "Less"
    THEN IF n.Children[1] = NilNode THEN NilDeref
         ELSE WithChild(n, 0, Delete(n.Children[1], data, TRUE))
    ELSE IF n.Children[2] = NilNode THEN NilDeref
         ELSE WithChild(n, 1, Delete(n.Children[2], data, TRUE))

\* Tree.Add under the node n: find, then set the Data or the child.
RECURSIVE Add(_, _)
Add(n, data) ==
    IF n.Data = 0 \/ Compare(data, n.Data) = "Equal" THEN [n EXCEPT !.Data = data]
    ELSE IF Compare(data, n.Data) = "Less"
    THEN [n EXCEPT !.Children[1] =
             IF @ = NilNode THEN NewNode(data) ELSE Add(@, data)]
    ELSE [n EXCEPT !.Children[2] =
             IF @ = NilNode THEN NewNode(data) ELSE Add(@, data)]

TreeCalled(op, data, r) ==
    /\ tree' = r.node
    /\ tcall' = [op |-> op, data |-> data, panic |-> r.panic,
                 before |-> tree, was |-> present]
    /\ UNCHANGED <<readerVars, exprVars, arrayVars, regionVars, lockVars>>

TreeAdd ==
    /\ ~tcall.panic
    /\ \E data \in Keys :
          /\ TreeCalled("Add", data, Stays(Add(tree, data)))
          /\ present' = present \cup {data}

\* Delete of an element that was added and not deleted since.
TreeDelete ==
    /\ ~tcall.panic
    /\ \E data \in present :
          /\ TreeCalled("Delete", data, Kept(tree, Delete(tree, data, FALSE)))
          /\ present' = present \ {data}

InitTree ==
    /\ TreeIdle
    /\ ReaderIdle
    /\ ExprIdle
    /\ ArrayIdle
    /\ RegionsIdle

NextTree == TreeAdd \/ TreeDelete

SpecTree == InitTree /\ [][NextTree]_vars

(***************************************************************************)
(* The RegionSet of expression.peg.  The type Region and its methods are   *)
(* not among the sources: a Region is modelled as the pair of its ends A   *)
(* and B, covering the positions from Begin to End; it intersects another  *)
(* when they are equal or share more than one position, so that regions    *)
(* that only touch do not.                                                 *)
(***************************************************************************)
\* The greatest position, and the most regions a set is given.
MaxPos == 3
MaxRegions == 3

Region(a, b) == [A |-> a, B |-> b]
Begin(r) == Min(r.A, r.B)
End(r)   == Max(r.A, r.B)
Contains(r, point) == point >= Begin(r) /\ point <= End(r)
Covers(r, r2) == Contains(r, Begin(r2)) /\ End(r2) <= End(r)
Intersects(r, r2) ==
    \/ r = r2
    \/ /\ Contains(r, Begin(r2)) \/ Contains(r2, Begin(r))
       /\ Min(End(r), End(r2)) - Max(Begin(r), Begin(r2)) > 0
\* The region from the least Begin to the greatest End, in the direction
\* of r.
Cover(r, r2) ==
    IF r.A <= r.B THEN Region(Min(r.A, Begin(r2)), Max(r.B, End(r2)))
    ELSE Region(Max(r.A, End(r2)), Min(r.B, Begin(r2)))
\* Region.Adjust on one end: an end at or after position moves by delta,
\* an end within a removed stretch moves to its start.
AdjustEnd(a, position, delta) ==
    IF a >= position THEN a + delta
    ELSE IF position + delta - a < 0 THEN position + delta
    ELSE a
AdjustRegion(r, position, delta) ==
    Region(AdjustEnd(r.A, position, delta), AdjustEnd(r.B, position, delta))

\* The test of flush on regions[i] and regions[j], i < j.
Merges(ri, rj) == ri = rj \/ Intersects(ri, rj) \/ Covers(rj, ri)

\* regions[i] = regions[i].Cover(regions[j]) and regions[j] taken out.
Merged(rs, i, j) ==
    [k \in 1..(Len(rs) - 1) |->
        IF k = i THEN Cover(rs[i], rs[j])
        ELSE IF k < j THEN rs[k] ELSE rs[k + 1]]

\* for j := i + 1; j < len(r.regions); { ... }
RECURSIVE FlushInner(_, _, _)
FlushInner(rs, i, j) ==
    IF j > Len(rs) THEN rs
    ELSE IF Merges(rs[i], rs[j]) THEN FlushInner(Merged(rs, i, j), i, j)
    ELSE FlushInner(rs, i, j + 1)

\* for i := 0; i < len(r.regions); i++ { ... }
RECURSIVE FlushPass(_, _)
FlushPass(rs, i) ==
    IF i > Len(rs) THEN rs ELSE FlushPass(FlushInner(rs, i, i + 1), i + 1)

\* RegionSet.flush: passes until one changes nothing.
RECURSIVE Flushed(_, _)
flush(rs) == Flushed(rs, FlushPass(rs, 1))
Flushed(reg, rs) == IF rs = reg THEN rs ELSE flush(rs)

Positions == 0..MaxPos
Regions   == {Region(a, b) : a \in Positions, b \in Positions}

RegionCalled(call, rs) ==
    /\ regions' = rs
    /\ rcall' = [op |-> call.op, args |-> call.args, before |-> regions]
    /\ UNCHANGED <<readerVars, exprVars, arrayVars, treeVars, lockVars>>

\* RegionSet.Add
RegionAdd ==
    /\ Len(regions) < MaxRegions
    /\ \E r2 \in Regions :
          RegionCalled([op |-> "Add", args |-> <<r2>>],
                       flush(Append(regions, r2)))

\* RegionSet.AddAll
RegionAddAll ==
    /\ Len(regions) + 2 <= MaxRegions
    /\ \E r2 \in Regions, r3 \in Regions :
          RegionCalled([op |-> "AddAll", args |-> <<r2, r3>>],
                       flush(regions \o <<r2, r3>>))

\* RegionSet.Adjust, the positions staying within Positions.
RegionAdjust ==
    \E position \in Positions, delta \in {-2, -1, 1, 2} :
        /\ \A k \in 1..Len(regions) :
              /\ AdjustEnd(regions[k].A, position, delta) \in Positions
              /\ AdjustEnd(regions[k].B, position, delta) \in Positions
        /\ RegionCalled([op |-> "Adjust", args |-> <<position, delta>>],
                        flush([k \in 1..Len(regions) |->
                                  AdjustRegion(regions[k], position, delta)]))

\* RegionSet.Clear
RegionClear ==
    /\ regions' = flush(SubSeq(regions, 1, 0))
    /\ rcall' = [op |-> "Clear", args |-> << >>, before |-> regions]
    /\ UNCHANGED <<readerVars, exprVars, arrayVars, treeVars, lockVars>>

InitRegions ==
    /\ RegionsIdle
    /\ ReaderIdle
    /\ ExprIdle
    /\ ArrayIdle
    /\ TreeIdle

NextRegions == RegionAdd \/ RegionAddAll \/ RegionAdjust \/ RegionClear

SpecRegions == InitRegions /\ [][NextRegions]_vars

(***************************************************************************)
(* Two goroutines on one RegionSet: sub calls Substract(r2), add calls     *)
(* Add(r).  A step is the taking of the lock, what a method does while it  *)
(* holds the lock, or the deferred release.  Region.Cut is not among the   *)
(* sources: it is modelled as the parts of a region outside another.       *)
(***************************************************************************)
\* Region.Cut: what is left of r before and after r2.
RegionCut(r, r2) ==
    IF ~Intersects(r, r2) /\ ~Covers(r2, r) THEN <<r>>
    ELSE (IF Begin(r) < Begin(r2) THEN <<Region(Begin(r), Begin(r2))>> ELSE << >>)
         \o (IF End(r2) < End(r) THEN <<Region(End(r2), End(r))>> ELSE << >>)

\* if !xor.Empty() { ret.Add(xor) } for the parts xors
RECURSIVE AddParts(_, _)
AddParts(out, xors) ==
    IF xors = << >> THEN out
    ELSE AddParts(IF xors[1].A # xors[1].B THEN flush(Append(out, xors[1]))
                  ELSE out,
                  Tail(xors))

\* RegionSet.Cut: the loop over r.regions from index i, out the set ret so far.
RECURSIVE Cut(_, _, _, _)
Cut(rs, r2, i, out) ==
    IF i > Len(rs) THEN out
    ELSE Cut(rs, r2, i + 1, AddParts(out, RegionCut(rs[i], r2)))

\* RegionSet.Contains
SetContains(rs, r2) ==
    \E i \in 1..Len(rs) :
        rs[i] = r2 \/ (Contains(rs[i], Begin(r2)) /\ Contains(rs[i], End(r2)))

\* The goroutine t moves to pc.
InPc(t, pc) == threads[t].pc = pc
Moved(t, pc) == [threads EXCEPT ![t].pc = pc]

\* r.lock.Lock(): of Cut, of Substract after Cut has returned, and of Add.
LockNext(t, pc) ==
    CASE t = "sub" /\ pc = "start"  -> "cut"
      [] t = "sub" /\ pc = "cutret" -> "assign"
      [] OTHER                      -> "append"
Lock ==
    \E t \in {"sub", "add"} :
        /\ threads[t].pc \in {"start", "cutret"}
        /\ lock = "free"
        /\ lock' = t
        /\ threads' = Moved(t, LockNext(t, threads[t].pc))
        /\ UNCHANGED <<readerVars, exprVars, arrayVars, treeVars, regionVars>>

\* defer r.lock.Unlock(): of Cut, which returns to Substract, and of
\* Substract and Add, which return to their callers.
Unlock ==
    \E t \in {"sub", "add"} :
        /\ threads[t].pc \in {"cutunlock", "unlock"}
        /\ lock = t
        /\ lock' = "free"
        /\ threads' = Moved(t, IF threads[t].pc = "cutunlock" THEN "cutret"
                               ELSE "done")
        /\ UNCHANGED <<readerVars, exprVars, arrayVars, treeVars, regionVars>>

\* r3 := r.Cut(r2), the body of Cut
SubstractCut ==
    /\ InPc("sub", "cut")
    /\ threads' = [threads EXCEPT !.sub.pc = "cutunlock",
                                  !.sub.r3 = Cut(regions, threads.sub.r2, 1, << >>)]
    /\ UNCHANGED <<readerVars, exprVars, arrayVars, treeVars, regionVars, lock>>

\* r.regions = r3.regions
SubstractAssign ==
    /\ InPc("sub", "assign")
    /\ regions' = threads.sub.r3
    /\ threads' = Moved("sub", "unlock")
    /\ UNCHANGED <<readerVars, exprVars, arrayVars, treeVars, rcall, lock>>

\* r.regions = append(r.regions, r2); r.flush() of Add; at is where
\* Substract was.
AddAppend ==
    /\ InPc("add", "append")
    /\ regions' = flush(Append(regions, threads.add.r))
    /\ threads' = [threads EXCEPT !.add.pc = "unlock",
                                  !.add.at = threads.sub.pc]
    /\ UNCHANGED <<readerVars, exprVars, arrayVars, treeVars, rcall, lock>>

\* r and r2 have no position in common.
Apart(r, r2) == End(r) < Begin(r2) \/ End(r2) < Begin(r)

\* A set of no region or of one, Substract(r2) and Add(r) about to be
\* called, r apart from r2.
InitThreads ==
    /\ regions \in {<< >>} \cup {<<r>> : r \in Regions}
    /\ rcall = [op |-> "none"]
    /\ lock = "free"
    /\ \E r2 \in Regions, r \in Regions :
          /\ Apart(r, r2)
          /\ threads = [sub |-> [pc |-> "start", r2 |-> r2, r3 |-> << >>],
                        add |-> [pc |-> "start", r |-> r, at |-> "start"]]
    /\ ReaderIdle
    /\ ExprIdle
    /\ ArrayIdle
    /\ TreeIdle

NextThreads ==
    Lock \/ Unlock \/ SubstractCut \/ SubstractAssign \/ AddAppend

SpecThreads == InitThreads /\ [][NextThreads]_vars

(***************************************************************************)
(* Properties of ReadInterface.                                            *)
(***************************************************************************)
\* The places in the loop body past the `if` tag of the current field.
FieldPcs == {"skip", "length", "value", "scan", "elems", "elemwait",
             "fieldwait", "align"}

\* C1: a field whose `if` expression evaluates to 0 is passed over: none of
\* its skip, length, max or align tags and no decoding of its value is
\* reached, the step that passes it over leaves the position, the source
\* and every destination as they were, and the field keeps the value it
\* had; so a struct whose fields all have an `if` evaluating to 0 is decoded
\* with the position where it was, no read or seek issued, and its value
\* as it was handed over.
CondZeroSkipsField ==
    /\ \A k \in 1..Len(stack) :
          stack[k].pc \in FieldPcs => stack[k].cond # 0
    /\ last.step = "continue" =>
          /\ last.cond = 0
          /\ pos = last.p
          /\ Len(log) = last.n
          /\ assigns = last.a
          /\ Top.v[last.i] = Top.v0[last.i]
    /\ (/\ ret.err = "nil"
        /\ ret.t.kind = "struct"
        /\ ~ret.t.reader
        /\ ret.ncond0 = Len(ret.t.fields)) =>
          /\ pos = ret.p0
          /\ Len(log) = ret.l0
          /\ ret.v = ret.v0

\* A struct of two fields, both with an `if` that evaluated to 0, was
\* decoded from a source that holds bytes.
CondZeroSkipsFieldWitness ==
    /\ status = "done"
    /\ result = "nil"
    /\ ret.t.kind = "struct"
    /\ Len(ret.t.fields) = 2
    /\ ret.ncond0 = 2
    /\ last.step = "return"
    /\ Len(buf) >= 2
    /\ pos = 0

\* C2: for an `align` tag evaluating to A >= 1 and a size >= 0 the seek made
\* after the field is round_up(size, A) - size when A < size, A - size when
\* A > size, and there is none when A = size, for every A.
AlignSeekRoundsUp ==
    (last.step = "align" /\ last.align >= 1 /\ last.size >= 0) =>
        last.seek = IF last.align < last.size
                    THEN RoundTo(last.size, last.align) - last.size
                    ELSE IF last.align > last.size
                    THEN last.align - last.size
                    ELSE 0

\* C3: the size the `align` tag of a scalar, struct or slice field works on
\* is the number of bytes the reader consumed decoding the field's value.
AlignSizeIsConsumed ==
    (last.step = "align" /\ last.kind \in ScalarKinds \cup {"struct", "slice"}) =>
        last.size = last.consumed

\* C4: when the type of the destination has a Validate method and its
\* decoding, generic or by its own Read method, completed without error,
\* Validate was called exactly once and ReadInterface returns what it
\* returned.
ValidateAfterDecode ==
    (ret.err # "none" /\ ret.t.validateable /\ ret.decoded) =>
        (ret.nvalid = 1 /\ ret.err = ret.vres)

\* C5: once a call has returned an error, every step is a return of an error
\* to the caller that issues no read or seek and sets no destination, and
\* the top-level call returns an error.
ErrorAbortsDecode ==
    [][ /\ failed # 0 =>
            /\ log' = log
            /\ pos' = pos
            /\ assigns' = assigns
            /\ Len(stack') < Len(stack)
            /\ ret'.err \notin {"nil", "none"}
            /\ status' # "panicked"
        /\ (status' = "done" /\ failed' # 0) => result' \notin {"nil", "none"}
      ]_vars

\* An error raised two or more calls deep, after bytes were read, has become
\* the result of the top-level call.
ErrorAbortsDecodeWitness ==
    /\ status = "done"
    /\ failed >= 2
    /\ result # "nil"
    /\ Len(log) >= 2
    /\ stack = << >>

\* C6: every Seek issued has a non-negative offset.
SeeksAreForward ==
    \A k \in 1..Len(log) : log[k].op = "seek" => log[k].a >= 0

\* C7: a string field with a length n >= 0, when the source holds n more
\* bytes, is decoded by one read of exactly n bytes, whatever they are, and
\* its value is those bytes up to the first null byte, all of them if none
\* is null.
FixedStringIsPrefix ==
    (/\ last.step = "strfixed"
     /\ last.n = 0 \/ last.p + last.n <= Len(buf)) =>
        /\ last.ok
        /\ Running
        /\ pos = last.p + last.n
        /\ last.n > 0 => log[Len(log)] = ReadEvent(last.n, last.n)
        /\ Len(Top.v[last.i]) <= last.n
        /\ \A k \in 1..Len(Top.v[last.i]) :
              Top.v[last.i][k] = buf[last.p + k] /\ Top.v[last.i][k] # 0
        /\ Len(Top.v[last.i]) < last.n => buf[last.p + Len(Top.v[last.i]) + 1] = 0

\* A block of two or more bytes with a null in it was read and cut.
FixedStringIsPrefixWitness ==
    /\ last.step = "strfixed"
    /\ last.ok
    /\ last.n >= 2
    /\ Len(Top.v[last.i]) = 1
    /\ pos = last.p + last.n

\* C8: a string field without a length tag is scanned a byte at a time to
\* the first null byte or to max bytes: its value is the bytes read without
\* the null, at most max bytes are consumed, and after a null the position
\* is just past it.
ScannedStringStopsAtNull ==
    (last.step = "strscan" /\ ~last.tagged) =>
        /\ pos - last.p >= 0
        /\ pos - last.p <= Max(last.max, 0)
        /\ \A k \in 1..Len(Top.v[last.i]) :
              Top.v[last.i][k] = buf[last.p + k] /\ Top.v[last.i][k] # 0
        /\ \/ /\ pos - last.p = Len(Top.v[last.i]) + 1
              /\ buf[pos] = 0
           \/ /\ pos - last.p = Len(Top.v[last.i])
              /\ Len(Top.v[last.i]) = Max(last.max, 0)

\* A scan without a `max` tag read one byte or more and then a null.
ScannedStringStopsAtNullWitness ==
    /\ last.step = "strscan"
    /\ ~last.tagged
    /\ last.max = MaxInt32
    /\ Len(Top.v[last.i]) >= 1
    /\ pos - last.p = Len(Top.v[last.i]) + 1
    /\ buf[pos] = 0

\* C9: a slice field is rejected for a missing length exactly when no
\* length was resolved for it.
MissingLengthIffUnresolved ==
    last.step = "slice" => (last.rejected <=> ~last.resolved)

\* C10: a slice field with a resolved length n >= 0 is decoded, without a
\* panic, into n elements by n decodes of the element type, and for uint8
\* elements they are the next n bytes of the source.
SliceDecodesNElements ==
    /\ (last.step = "slice" /\ last.resolved /\ last.n >= 0) =>
          (~last.panicked /\ status # "panicked")
    /\ last.step = "slicedone" =>
          /\ Len(Top.v[last.i]) = last.n
          /\ last.calls = last.n
          /\ Top.t.fields[last.i].type.elem.kind = "uint8" =>
                /\ pos - last.p = last.n
                /\ \A k \in 1..last.n : Top.v[last.i][k] = buf[last.p + k]

\* The steps of the loop body in the order of the code: from each place the
\* places the same field can get to next.
FieldSteps ==
    {<<"entry", "skip">>, <<"field", "skip">>, <<"skip", "length">>,
     <<"length", "value">>, <<"value", "align">>, <<"value", "scan">>,
     <<"value", "elems">>, <<"value", "fieldwait">>, <<"scan", "scan">>,
     <<"scan", "align">>, <<"elems", "elemwait">>, <<"elemwait", "elems">>,
     <<"elems", "align">>, <<"fieldwait", "align">>}

\* What a step may do to the frame f of a struct decode, making it g.
FieldOrderStep(f, g) ==
    \/ g.i = f.i /\ <<f.pc, g.pc>> \in FieldSteps
    \/ g.i = f.i + 1 /\ g.pc = "field" /\ f.pc = "align"
    \/ g.i = f.i + 1 /\ g.pc = "field" /\ f.pc \in {"entry", "field"} /\ g.cond = 0
    \/ g.i = f.i /\ g.pc = "validate" /\ f.pc \in {"entry", "field"}
                 /\ f.i = Len(f.t.fields) + 1

\* C14: in the decode of a struct the fields are taken in declaration order,
\* one after the other, and within a field the steps go condition, skip
\* seek, length, value, alignment seek, none of them twice; a length prefix
\* is read right before the data it counts; and a tag naming an earlier
\* field sees the value decoded for it.
FieldsInDeclarationOrder ==
    [][ /\ \A d \in 1..Len(stack) :
              (/\ d <= Len(stack')
               /\ stack[d].t.kind = "struct"
               /\ stack'[d] # stack[d]) =>
                  FieldOrderStep(stack[d], stack'[d])
        /\ (last'.step = "strfixed" /\ last'.ok /\ last.step = "length"
              /\ last.w > 0 /\ last'.n > 0) =>
              /\ log'[Len(log') - 1] = ReadEvent(last.w, last.w)
              /\ log'[Len(log')] = ReadEvent(last'.n, last'.n)
              /\ pos' = pos + last'.n
        /\ (/\ last'.step = "length"
            /\ Len(stack') = Len(stack)
            /\ CurField(Top).length = TxtN
            /\ Top.t.fields[1].name = TxtN) =>
              /\ stack'[Len(stack')].size = Top.v[1]
              /\ Top.v[1] = buf[Top.p0 + 1]
      ]_vars

\* The second field of a struct was decoded with a length its tag took
\* from the first field, which had been decoded to 2.
FieldsInDeclarationOrderWitness ==
    /\ Running
    /\ Top.t.kind = "struct"
    /\ Top.i = 2
    /\ Top.pc = "align"
    /\ CurField(Top).length = TxtN
    /\ Top.size = 2
    /\ Top.v[1] = 2
    /\ last.step = "strfixed"

\* C15: Read(n) for n >= 1 (the read of a string of length n) fails when
\* the source delivers fewer than n bytes and else delivers exactly n;
\* Read(0) succeeds without a read or seek on the source; and a read of a
\* scalar of width w fails exactly when fewer than w bytes remain.
ReadDeliversExactly ==
    /\ last.step = "strfixed" =>
          /\ last.ok <=> (last.n = 0 \/ last.p + last.n <= Len(buf))
          /\ last.n = 0 => (Len(log) = last.nlog /\ pos = last.p)
          /\ last.n > 0 =>
                /\ Len(log) = last.nlog + 1
                /\ log[Len(log)].op = "read"
                /\ log[Len(log)].a = last.n
                /\ last.ok <=> log[Len(log)].b = last.n
                /\ last.ok => pos = last.p + last.n
          /\ ~last.ok =>
                ret.err = (IF log[Len(log)].b = 0 THEN "EOF" ELSE "short")
    /\ last.step = "scalar" =>
          /\ last.ok <=> last.p + last.w <= Len(buf)
          /\ last.ok => (pos = last.p + last.w
                         /\ log[Len(log)] = ReadEvent(last.w, last.w))
          /\ ~last.ok => (ret.err \in {"EOF", "short"}
                          /\ log[Len(log)].b < last.w)

\* A read of two or more bytes got some of them and failed.
ReadDeliversExactlyWitness ==
    /\ last.step = "scalar"
    /\ ~last.ok
    /\ last.w >= 2
    /\ log[Len(log)].b >= 1
    /\ ret.err = "short"

(***************************************************************************)
(* Properties of the expression package.                                   *)
(***************************************************************************)
\* The node of `x op y` for the k-th operator and operand nodes l and r.
BinNode(k, l, r) == [tag |-> "bin", op |-> OpOrder[k].op, l |-> l, r |-> r]

\* C11: there is no chaining of operators: a text `a op b op2 c`, such as
\* 1+2+3, does not parse, while `(a op b) op2 c` and `a op (b op2 c)` parse,
\* each to the one tree its parentheses spell out, and a parse that
\* succeeds has consumed the whole text.
NoOperatorChaining ==
    ast # NotParsed =>
        /\ expr.form = "chain" => ~ast.ok
        /\ expr.form = "left" =>
              /\ ast.ok
              /\ ast.node = BinNode(expr.k2,
                                    BinNode(expr.k, Atoms[expr.a].node,
                                            Atoms[expr.b].node),
                                    Atoms[expr.a].node)
        /\ expr.form = "right" =>
              /\ ast.ok
              /\ ast.node = BinNode(expr.k, Atoms[expr.a].node,
                                    BinNode(expr.k2, Atoms[expr.b].node,
                                            Atoms[expr.a].node))
        /\ ast.ok => ast.pos = Len(expr.text) + 1

\* The text 1+2+3 was parsed and rejected.
NoOperatorChainingWitness ==
    /\ expr.form = "chain"
    /\ expr.text = <<"1", "+", "2", "+", "3">>
    /\ ast # NotParsed
    /\ ~ast.ok

\* C12: a text `X op Y` parses, for every operator of the grammar, to the
\* binary node of exactly that operator with X and Y as its operands; so
\* >>, <<, &^, ==, !=, <= and >= never fail and never yield the node of
\* >, < or &.
OperatorResolved ==
    (expr.form = "bin" /\ ast # NotParsed) =>
        /\ ast.ok
        /\ ast.node = BinNode(expr.k, Atoms[expr.a].node, Atoms[expr.b].node)

\* A text `X <= Y` was parsed to a node of <=.
OperatorResolvedWitness ==
    /\ expr.form = "bin"
    /\ OpOrder[expr.k].tok = <<"<", "=">>
    /\ ast.ok
    /\ ast.node.op = "le"

\* The integer semantics the values are compared with.  The &^ of x >= 0
\* and 0 <= y < 32 is spelled out bit by bit.
RefOps == {"add", "sub", "mul", "andnot", "eq", "ne", "lt", "le", "gt", "ge"}
Bit(x, n) == (x \div Pow2(n)) % 2
RefAndNot(x, y) ==
    (x \div 32) * 32
    + Bit(x, 4) * (1 - Bit(y, 4)) * 16 + Bit(x, 3) * (1 - Bit(y, 3)) * 8
    + Bit(x, 2) * (1 - Bit(y, 2)) * 4 + Bit(x, 1) * (1 - Bit(y, 1)) * 2
    + Bit(x, 0) * (1 - Bit(y, 0))
RefApply(op, x, y) ==
    CASE op = "add"    -> x + y
      [] op = "sub"    -> x - y
      [] op = "mul"    -> x * y
      [] op = "andnot" -> RefAndNot(x, y)
      [] op = "eq"     -> IF x = y THEN 1 ELSE 0
      [] op = "ne"     -> IF x = y THEN 0 ELSE 1
      [] op = "lt"     -> IF x < y THEN 1 ELSE 0
      [] op = "le"     -> IF x <= y THEN 1 ELSE 0
      [] op = "gt"     -> IF x > y THEN 1 ELSE 0
      [] op = "ge"     -> IF x >= y THEN 1 ELSE 0
RefDefined(op, x, y) ==
    op \in RefOps /\ (op = "andnot" => (x >= 0 /\ y >= 0 /\ y < 32))
\* Whether the value is what the operator k gives for x and y.
ValueIs(k, x, y) ==
    RefDefined(OpOrder[k].op, x, y) =>
        (val.ok /\ val.val = RefApply(OpOrder[k].op, x, y))

\* C13: the value of a parsed text is what integer arithmetic gives: every
\* test of TestEval has the value it expects, a constant or path the value
\* of the constant or field, `a op b` the value of op on the values of a
\* and b for + - * &^ and the comparisons (1 for true, 0 for false), and a
\* text with parentheses the value of its tree.
EvalMatchesReference ==
    val.done =>
        /\ expr.form = "test" => (val.ok /\ val.val = expr.out)
        /\ expr.form = "atom" => (val.ok /\ val.val = Atoms[expr.a].value)
        /\ expr.form = "bin" =>
              ValueIs(expr.k, Atoms[expr.a].value, Atoms[expr.b].value)
        /\ (/\ expr.form = "left"
            /\ RefDefined(OpOrder[expr.k].op, Atoms[expr.a].value,
                          Atoms[expr.b].value)) =>
              ValueIs(expr.k2,
                      RefApply(OpOrder[expr.k].op, Atoms[expr.a].value,
                               Atoms[expr.b].value),
                      Atoms[expr.a].value)
        /\ (/\ expr.form = "right"
            /\ RefDefined(OpOrder[expr.k2].op, Atoms[expr.b].value,
                          Atoms[expr.a].value)) =>
              ValueIs(expr.k, Atoms[expr.a].value,
                      RefApply(OpOrder[expr.k2].op, Atoms[expr.b].value,
                               Atoms[expr.a].value))

\* The test (Length+3)&^3 was evaluated to 4.
EvalMatchesReferenceWitness ==
    /\ expr.form = "test"
    /\ expr.text = EvalTests[7].in
    /\ val.done
    /\ ast.node.op = "andnot"
    /\ val.val = 4


\* C22: whenever the `align` tag of a string field is worked on, the size
\* it works on is not negative and is the number of bytes read for the
\* string; for a string scanned under `max` = m that met no null within m
\* bytes that size is m.
StringAlignSizeIsRead ==
    (last.step = "align" /\ last.kind = "string") =>
        /\ last.size >= 0
        /\ last.size = last.consumed

(***************************************************************************)
(* Properties of the arrays.                                               *)
(***************************************************************************)
\* The index of the last call is within the array as it was before the
\* call: up to the length for Insert, below it for Remove and Get.
InRange ==
    /\ acall.index >= 0
    /\ acall.index <= Len(acall.before)
    /\ acall.op = "Insert" \/ acall.index < Len(acall.before)

\* What the array under the BoundsCheckingArray does with the last call.
InnerResult ==
    CASE acall.op = "Insert" -> InnerInsert([arr EXCEPT !.model = acall.before],
                                            acall.index, acall.data, acall.e)
      [] acall.op = "Remove" -> InnerRemove([arr EXCEPT !.model = acall.before],
                                            acall.index, acall.e)
      [] OTHER               -> InnerGet([arr EXCEPT !.model = acall.before],
                                         acall.index)

\* C17: a BoundsCheckingArray never hands an out-of-range index to the
\* array it wraps: Insert with index < 0 or index > Len() returns
\* ErrIndexOOB, Remove with index < 0 or index >= Len() returns
\* (nil, ErrIndexOOB), Get with such an index returns nil, and the wrapped
\* array is neither called nor changed; a call with an index in range
\* reaches the wrapped array with the same arguments, and what the wrapped
\* array returns and does is the outcome.
BoundsCheckedForwarding ==
    (arr.kind # "none" /\ arr.checked /\ acall.op # "none") =>
        /\ acall.out = "ok"
        /\ InRange =>
              /\ acall.fwd = InnerResult.fwd
              /\ Len(acall.fwd) = 1
              /\ acall.fwd[1].op = acall.op
              /\ acall.fwd[1].index = acall.index
              /\ acall.op = "Insert" => acall.fwd[1].data = acall.data
              /\ acall.err = InnerResult.err
              /\ acall.val = InnerResult.val
              /\ arr.model = InnerResult.model
        /\ ~InRange =>
              /\ acall.fwd = << >>
              /\ arr.model = acall.before
              /\ acall.val = Nil
              /\ acall.err = IF acall.op = "Get" THEN "nil" ELSE "ErrIndexOOB"

\* A Remove at the index just past the end of a wrapped array that is not
\* empty was refused.
BoundsCheckedForwardingWitness ==
    /\ arr.kind = "caller"
    /\ arr.checked
    /\ acall.op = "Remove"
    /\ Len(acall.before) = 1
    /\ acall.index = 1
    /\ acall.err = "ErrIndexOOB"
    /\ acall.fwd = << >>

\* C18: an ObservableArray notifies once for a mutation that succeeded and
\* not at all for one that failed: after Insert(index, data) returned nil
\* there is the one notification InsertedData{index}, after Remove(i)
\* returned nil the one notification RemovedData{i, olddata} with the
\* element Remove returned (the element the caller's array held at i), in
\* both cases of a call the wrapped array has carried out; after an error
\* or a panic of the wrapped call there is none.
NotifiedOncePerMutation ==
    (arr.kind # "none" /\ arr.observed /\ acall.op \in {"Insert", "Remove"}) =>
        IF acall.out = "ok" /\ acall.err = "nil"
        THEN /\ Len(acall.fwd) = 1
             /\ acall.op = "Insert" =>
                   acall.notes = <<InsertedData(acall.index)>>
             /\ acall.op = "Remove" =>
                   /\ acall.notes = <<RemovedData(acall.index, acall.val)>>
                   /\ arr.kind = "caller" =>
                         acall.val = acall.before[acall.index + 1]
        ELSE acall.notes = << >>

\* A Remove that succeeded was notified with the removed element, and the
\* array had held more than that element.
NotifiedOncePerMutationWitness ==
    /\ arr.kind = "caller"
    /\ arr.observed
    /\ acall.op = "Remove"
    /\ acall.err = "nil"
    /\ Len(acall.before) = 2
    /\ acall.notes = <<RemovedData(acall.index, acall.before[acall.index + 1])>>

\* An Insert or Remove the wrapped array refused was not notified.
FailedMutationWitness ==
    /\ arr.kind # "none"
    /\ arr.observed
    /\ acall.op \in {"Insert", "Remove"}
    /\ acall.err \in {"ErrNotInt", "ErrIndexOOB", "refused"}
    /\ acall.notes = << >>

\* C19: for a BasicArray and an IntArray, after Insert(i, x) with
\* 0 <= i <= Len() returned nil, Len() is one greater than before, Get(i)
\* is x and the other elements are in the order they had; after Remove(i)
\* with 0 <= i < Len() returned the old element, Len() is one smaller and
\* the other elements are in the order they had.
InsertAndRemoveResize ==
    (arr.kind \in {"basic", "int"} /\ acall.op \in {"Insert", "Remove"}
        /\ InRange /\ acall.out = "ok" /\ acall.err = "nil") =>
        IF acall.op = "Insert"
        THEN /\ Len(arr.model) = Len(acall.before) + 1
             /\ arr.model = Inserted(acall.before, acall.index, acall.data)
        ELSE /\ acall.val = acall.before[acall.index + 1]
             /\ Len(arr.model) = Len(acall.before) - 1
             /\ arr.model = SubSeq(acall.before, 1, acall.index)
                            \o SubSeq(acall.before, acall.index + 2,
                                      Len(acall.before))


(***************************************************************************)
(* Properties of the Tree.                                                 *)
(***************************************************************************)
\* The elements of S in ascending order.
RECURSIVE Ascending(_)
Ascending(S) ==
    IF S = {} THEN << >>
    ELSE LET m == CHOOSE x \in S : \A y \in S : x <= y
         IN  <<m>> \o Ascending(S \ {m})

\* C20: after any Add calls and Delete calls of elements that are present,
\* Walk emits the elements added and not deleted since, each once and in
\* ascending order, and no Delete of a present element has panicked.
WalkIsTheSortedContent ==
    /\ ~tcall.panic
    /\ Walk(tree) = Ascending(present)


(***************************************************************************)
(* Properties of the RegionSet.                                            *)
(***************************************************************************)
\* One of the regions ends where the other begins, and neither is equal
\* to, intersects or covers the other.
MerelyAdjacent(r, r2) ==
    /\ End(r) = Begin(r2) \/ End(r2) = Begin(r)
    /\ r # r2
    /\ ~Intersects(r, r2)
    /\ ~Covers(r, r2)
    /\ ~Covers(r2, r)

\* No two entries of rs are equal, intersect or cover one another.
Disjoint(rs) ==
    \A i \in 1..Len(rs), j \in 1..Len(rs) :
        i # j => /\ rs[i] # rs[j]
                 /\ ~Intersects(rs[i], rs[j])
                 /\ ~Covers(rs[i], rs[j])

\* C16: after every completed Add, AddAll, Adjust or Clear no two regions
\* of the set are equal, intersect or cover one another, and a region
\* added to a set of such regions that is merely adjacent to entries of
\* it, and equal to, intersecting or covering none, is an entry of its own
\* beside them.
RegionsAreMergedNotJoined ==
    rcall.op # "none" =>
        /\ Disjoint(regions)
        /\ (/\ rcall.op = "Add"
            /\ Disjoint(rcall.before)
            /\ \E k \in 1..Len(rcall.before) :
                  MerelyAdjacent(rcall.before[k], rcall.args[1])
            /\ Disjoint(Append(rcall.before, rcall.args[1])))
           => regions = Append(rcall.before, rcall.args[1])


(***************************************************************************)
(* Properties of the RegionSet under two goroutines.                       *)
(***************************************************************************)
\* C21: in every interleaving of Substract(r2) and Add(r), r apart from
\* r2, the set contains r once both calls have returned, and as long as a
\* call has not returned some goroutine can take a step.
SubstractKeepsAdded ==
    /\ (InPc("sub", "done") /\ InPc("add", "done")) =>
          SetContains(regions, threads.add.r)
    /\ (threads.sub.pc \notin {"idle", "done"}
            \/ threads.add.pc \notin {"idle", "done"}) => ENABLED NextThreads

============================================================================
